---- MODULE Spec2Model ----
(***************************************************************************)
(* A model of the layout decisions of pic32-device-file-maker:            *)
(*   - memory-map resolution of the two linker script makers              *)
(*     (file_makers/cortexm_linker_script_maker.py and                    *)
(*      file_makers/arm_mpu_linker_script_maker.py),                      *)
(*   - the register-group struct layout walk and the bitfield macros of   *)
(*     file_makers/cortexm_c_periph_header_maker.py,                      *)
(*   - the selection of the main regions, the fuse regions and the        *)
(*     stack and heap reservations of the generated linker scripts,       *)
(*   - the fuse declarations of file_makers/arm_c_device_header_maker.py, *)
(*   - the device loop of main.py.                                        *)
(* Every function of the source is an operator that computes what the     *)
(* code computes; the actions apply them to inputs drawn from bounded     *)
(* sets.                                                                   *)
(***************************************************************************)
EXTENDS Integers, Sequences, FiniteSets, TLC

VARIABLES
    pc,                 \* which phase the modelled run is in
    address_spaces,     \* devinfo.address_spaces: the input of a linker script maker
    unique_addr_spaces, \* run(): the resolved, sorted address spaces
    aliases,            \* run() of the MPU maker: the alias table, in dict insertion order
    maker,              \* which linker script maker has run
    group,              \* the RegisterGroup given to _get_register_group_definition
    group_def,          \* the structs (and union) _get_register_group_definition returns
    field,              \* the RegisterField given to _get_bitfield_macros
    field_macros,       \* the macros _get_bitfield_macros returns
    value,              \* the argument v a field's setter macro is used with
    field_value,        \* what the setter macro evaluates to
    raised,             \* the exception the modelled call ended with, "none" if it returned
    device_name,        \* devinfo.name
    peripherals,        \* devinfo.peripherals
    plan,               \* the regions run() of a linker script maker has selected
    outfile,            \* what run() has written to the linker script, in order
    error_msg,          \* the message of the exception, <<>> if there is none
    fuse_decls,         \* the fuse declarations of the device header
    defsym,             \* the symbols a link with the script defines (--defsym) and its data
    symbols,            \* the symbols the script computes in that link
    link_error,         \* the message of the ASSERT of the script that failed in that
                        \* link, "none" if it held
    objects,            \* the Python list objects of regions: objects[ref] is the content
    input_refs,         \* the list object of devinfo.address_spaces[k].mem_regions
    unique_refs,        \* the list object of unique_addr_spaces[k].mem_regions
    batch,              \* the devices of the batch, in the order of the ATDF paths
    device_index,       \* the device the loop of __main__ is at
    files,              \* the files of the output directory
    device_families,    \* __main__: the names of the devices made, by family
    module_element,     \* the register-group elements of a module of the ATDF file
    register_groups,    \* what AtdfReader._get_register_groups returns
    interrupts,         \* devinfo.interrupts
    vector_file,        \* what run() of a vectors or startup maker has written
    ld_path,            \* __main__ of pic32-device-file-maker.py: the variable ld_path
    big_header          \* what all_devices_header_maker.run has written, in order

memVars == <<address_spaces, unique_addr_spaces, aliases, maker>>

layoutVars == <<group, group_def>>

fieldVars == <<field, field_macros, value, field_value>>

planVars == <<device_name, peripherals, plan, outfile, error_msg>>

fuseVars == <<fuse_decls>>

linkVars == <<defsym, symbols, link_error>>

objVars == <<objects, input_refs, unique_refs>>

batchVars == <<batch, device_index, files, device_families>>

readVars == <<module_element, register_groups>>

\* The variables of the reader of the device files and of the makers of
\* the other files.
vectorVars == <<interrupts, vector_file>>

driverVars == <<ld_path, big_header>>

extVars == <<readVars, vectorVars, driverVars>>

\* The variables of the parts of the program other than memory-map
\* resolution, register layout and bitfield macros.
restVars == <<planVars, fuseVars, linkVars, objVars, batchVars, extVars>>

vars == <<pc, memVars, layoutVars, fieldVars, raised, restVars>>

----------------------------------------------------------------------------
(* Bounds of the model. *)

\* Most memory regions in one address space.
MaxRegions == 3

\* Addresses of an address space range over 0..MaxAddr.
MaxAddr == 3

\* The region names of the model.
RegionNames == {"FLASH", "NVMCTRL_FLASH", "IMEMORIES", "SRAM0"}

----------------------------------------------------------------------------
(* Generic helpers. *)

\* str.lower() on the names the model uses.
lower(s) ==
    CASE s = "FLASH" -> "flash"
      [] s = "NVMCTRL_FLASH" -> "nvmctrl_flash"
      [] s = "IMEMORIES" -> "imemories"
      [] s = "SRAM0" -> "sram0"
      [] s = "BFM" -> "bfm"
      [] s = "QSPI" -> "qspi"
      [] s = "HSRAM" -> "hsram"
      [] s = "ITCM" -> "itcm"
      [] s = "DTCM" -> "dtcm"
      [] s = "DDR_CS" -> "ddr_cs"
      [] s = "APB" -> "apb"
      [] s = "FUSES" -> "fuses"
      [] s = "USER_PAGE" -> "user_page"
      [] s = "BOOTCFG" -> "bootcfg"
      [] s = "USERCFG" -> "usercfg"
      [] s = "SEQNUM" -> "seqnum"
      [] s = "ROTCFG" -> "rotcfg"
      [] s = "ATSAME54P20A" -> "atsame54p20a"
      [] s = "PIC32CZ8110CA80208" -> "pic32cz8110ca80208"
      [] s = "ATSAMD21G18A" -> "atsamd21g18a"
      [] s = "EBI_MPDDR" -> "ebi_mpddr"
      [] s = "DDR_AES_CS" -> "ddr_aes_cs"
      [] s = "IRAM" -> "iram"
      [] s = "IRAM1" -> "iram1"
      [] s = "SRAM1" -> "sram1"
      [] s = "SAMA5D27" -> "sama5d27"
      [] s = "ATSAME54N19A" -> "atsame54n19a"
      [] s = "ATSAMD21E15A" -> "atsamd21e15a"
      [] s = "PIC32CZ2051CA80064" -> "pic32cz2051ca80064"
      [] s = "CEC1736" -> "cec1736"
      [] s = "MEC1723" -> "mec1723"
      [] s = "WHICH_PIC32" -> "which_pic32"
      [] OTHER -> s

\* 'part in s' for the lower-case strings the code searches for and the
\* lower-case names of the model: s contains part when they are equal or
\* part is a proper substring of s.
IsIn(part, s) ==
    \/ part = s
    \/ <<part, s>> \in {<<"ddr", "ddr_cs">>, <<"sram", "hsram">>, <<"sram", "sram0">>,
                       <<"flash", "nvmctrl_flash">>, <<"ddr", "ebi_mpddr">>,
                       <<"ddr", "ddr_aes_cs">>, <<"sram", "sram1">>, <<"iram", "iram1">>}

\* The regions of s whose name is not in rem, order preserved:
\*   for region in addr_space.mem_regions:
\*       if region.name not in regions_to_remove: new_regions.append(region)
RECURSIVE DropNames(_, _)
DropNames(s, rem) ==
    IF s = <<>> THEN <<>>
    ELSE IF Head(s).name \notin rem THEN <<Head(s)>> \o DropNames(Tail(s), rem)
         ELSE DropNames(Tail(s), rem)

\* One step of a stable insertion sort on start_addr: r goes behind every
\* element whose key is not greater.
RECURSIVE InsertByStart(_, _)
InsertByStart(r, s) ==
    IF s = <<>> THEN <<r>>
    ELSE IF Head(s).start_addr <= r.start_addr
         THEN <<Head(s)>> \o InsertByStart(r, Tail(s))
         ELSE <<r>> \o s

\* list.sort(key=operator.attrgetter('start_addr')): a stable sort.
RECURSIVE SortByStart(_)
SortByStart(s) ==
    IF s = <<>> THEN <<>>
    ELSE InsertByStart(s[Len(s)], SortByStart(SubSeq(s, 1, Len(s) - 1)))

\* DeviceAddressSpace(id, start_addr, size, mem_regions = regions)
WithRegions(addr_space, regions) ==
    [addr_space EXCEPT !.mem_regions = regions]

\* for addr_space in unique_addr_spaces: addr_space.mem_regions.sort(...)
SortSpaces(spaces) ==
    [k \in 1..Len(spaces) |-> WithRegions(spaces[k], SortByStart(spaces[k].mem_regions))]

----------------------------------------------------------------------------
(* cortexm_linker_script_maker._remove_overlapping_memory *)

\* A slip of the comparison: the branch that removes a contained region j is lost.
cortexm_pair_keeps_j(region_i, region_j, rem) ==
    LET start_i == region_i.start_addr
        end_i   == start_i + region_i.size
        start_j == region_j.start_addr
        end_j   == start_j + region_j.size
    IN IF start_i >= start_j /\ end_i <= end_j
       THEN rem \cup {region_i.name}
       ELSE rem

\* The body of the inner loop, lines 150-159: the comparison of region i
\* with a later region j; returns regions_to_remove.
cortexm_pair(region_i, region_j, rem) ==
    LET start_i == region_i.start_addr
        end_i   == start_i + region_i.size
        start_j == region_j.start_addr
        end_j   == start_j + region_j.size
    IN IF start_i >= start_j /\ end_i <= end_j
       THEN rem \cup {region_i.name}
       ELSE IF start_j >= start_i /\ end_j <= end_i
            THEN rem \cup {region_j.name}
            ELSE rem

\* The inner loop over j in range(i+1, len) for a fixed i.
RECURSIVE cortexm_inner(_, _, _, _)
cortexm_inner(regions, i, j, rem) ==
    IF j > Len(regions) THEN rem
    ELSE cortexm_inner(regions, i, j + 1, cortexm_pair(regions[i], regions[j], rem))

\* The outer loop over i in range(0, len).
RECURSIVE cortexm_outer(_, _, _)
cortexm_outer(regions, i, rem) ==
    IF i > Len(regions) THEN rem
    ELSE cortexm_outer(regions, i + 1, cortexm_inner(regions, i, i + 1, rem))

\* A slip of the loops: only the first region is compared with the others.
cortexm_regions_to_remove_first_only(regions) == cortexm_inner(regions, 1, 2, {})

\* regions_to_remove of one address space.
cortexm_regions_to_remove(regions) == cortexm_outer(regions, 1, {})

\* A slip of the final loop: the first region of the list is always kept.
cortexm_remove_overlapping_memory_keeps_first(spaces) ==
    [k \in 1..Len(spaces) |->
        WithRegions(spaces[k],
                    DropNames(spaces[k].mem_regions,
                              cortexm_regions_to_remove(spaces[k].mem_regions)
                                  \ {spaces[k].mem_regions[x].name : x \in {1} \cap DOMAIN spaces[k].mem_regions}))]

\* The Cortex-M resolver: per address space, drop the regions whose name was marked.
cortexm_remove_overlapping_memory(spaces) ==
    [k \in 1..Len(spaces) |->
        WithRegions(spaces[k],
                    DropNames(spaces[k].mem_regions,
                              cortexm_regions_to_remove(spaces[k].mem_regions)))]

----------------------------------------------------------------------------
(* arm_mpu_linker_script_maker *)

\* _remove_known_problematic_regions: every region named 'imemories'
\* (whatever its case) is dropped before resolution.
RECURSIVE DropImemories(_)
DropImemories(s) ==
    IF s = <<>> THEN <<>>
    ELSE IF ~(lower(Head(s).name) = "imemories")
         THEN <<Head(s)>> \o DropImemories(Tail(s))
         ELSE DropImemories(Tail(s))

\* A slip: the workaround is skipped and every region is passed on.
remove_known_problematic_regions_skipped(spaces) == spaces

remove_known_problematic_regions(spaces) ==
    [k \in 1..Len(spaces) |-> WithRegions(spaces[k], DropImemories(spaces[k].mem_regions))]

\* The alias table is a Python dict from a region name to a set of names.
\* It is modelled as a sequence of [key, vals] entries in insertion order.
AliasKeys(al) == {al[k].key : k \in 1..Len(al)}

AliasVals(al, name) ==
    IF name \in AliasKeys(al)
    THEN (CHOOSE e \in {al[k] : k \in 1..Len(al)} : e.key = name).vals
    ELSE {}

\* if i.name in aliases: aliases[i.name].add(j.name) else: aliases[i.name] = {j.name}
AliasAdd(al, key, name) ==
    IF key \in AliasKeys(al)
    THEN [k \in 1..Len(al) |->
            IF al[k].key = key THEN [al[k] EXCEPT !.vals = @ \cup {name}] ELSE al[k]]
    ELSE Append(al, [key |-> key, vals |-> {name}])

\* del aliases[name]
RECURSIVE AliasDel(_, _)
AliasDel(al, name) ==
    IF al = <<>> THEN <<>>
    ELSE IF Head(al).key = name THEN AliasDel(Tail(al), name)
         ELSE <<Head(al)>> \o AliasDel(Tail(al), name)

\* A slip of the alias branch: the duplicate j is recorded but not marked.
mpu_pair_alias_kept(i, j, st) ==
    IF i.name \in st.rem THEN st
    ELSE LET i_end == i.start_addr + i.size
             j_end == j.start_addr + j.size
         IN IF i.start_addr = j.start_addr /\ i_end = j_end
            THEN [rem |-> st.rem, al |-> AliasAdd(st.al, i.name, j.name)]
            ELSE IF i.start_addr >= j.start_addr /\ i_end <= j_end
                 THEN [st EXCEPT !.rem = @ \cup {i.name}]
                 ELSE IF j.start_addr >= i.start_addr /\ j_end <= i_end
                      THEN [st EXCEPT !.rem = @ \cup {j.name}]
                      ELSE st

\* A slip of the alias test: only the start addresses are compared.
mpu_pair_alias_by_start(i, j, st) ==
    IF i.name \in st.rem THEN st
    ELSE LET i_end == i.start_addr + i.size
             j_end == j.start_addr + j.size
         IN IF i.start_addr = j.start_addr
            THEN [rem |-> st.rem \cup {j.name}, al |-> AliasAdd(st.al, i.name, j.name)]
            ELSE IF i.start_addr >= j.start_addr /\ i_end <= j_end
                 THEN [st EXCEPT !.rem = @ \cup {i.name}]
                 ELSE IF j.start_addr >= i.start_addr /\ j_end <= i_end
                      THEN [st EXCEPT !.rem = @ \cup {j.name}]
                      ELSE st

\* The body of 'for i, j in itertools.combinations(addr_space.mem_regions, 2)'
\* for one pair, lines 176-195; st = [rem: regions_to_remove, al: aliases].
mpu_pair(i, j, st) ==
    IF i.name \in st.rem THEN st
    ELSE LET i_end == i.start_addr + i.size
             j_end == j.start_addr + j.size
         IN IF i.start_addr = j.start_addr /\ i_end = j_end
            THEN [rem |-> st.rem \cup {j.name}, al |-> AliasAdd(st.al, i.name, j.name)]
            ELSE IF i.start_addr >= j.start_addr /\ i_end <= j_end
                 THEN [st EXCEPT !.rem = @ \cup {i.name}]
                 ELSE IF j.start_addr >= i.start_addr /\ j_end <= i_end
                      THEN [st EXCEPT !.rem = @ \cup {j.name}]
                      ELSE st

\* itertools.combinations(regions, 2) yields (1,2), (1,3), ..., (2,3), ...
RECURSIVE mpu_pairs(_, _, _, _)
mpu_pairs(regions, i, j, st) ==
    IF i >= Len(regions) THEN st
    ELSE IF j > Len(regions) THEN mpu_pairs(regions, i + 1, i + 2, st)
         ELSE mpu_pairs(regions, i, j + 1, mpu_pair(regions[i], regions[j], st))

\* The final loop of one address space: a removed region loses its alias
\* entry, every other region is kept.
RECURSIVE mpu_drop_alias_entries(_, _, _)
mpu_drop_alias_entries(regions, rem, al) ==
    IF regions = <<>> THEN al
    ELSE IF Head(regions).name \in rem /\ Head(regions).name \in AliasKeys(al)
         THEN mpu_drop_alias_entries(Tail(regions), rem, AliasDel(al, Head(regions).name))
         ELSE mpu_drop_alias_entries(Tail(regions), rem, al)

\* One iteration of 'for addr_space in address_spaces'; the alias table is
\* shared by all the address spaces, regions_to_remove starts empty.
mpu_one_space(addr_space, al) ==
    LET st == mpu_pairs(addr_space.mem_regions, 1, 2, [rem |-> {}, al |-> al])
    IN [space |-> WithRegions(addr_space, DropNames(addr_space.mem_regions, st.rem)),
        al    |-> mpu_drop_alias_entries(addr_space.mem_regions, st.rem, st.al)]

\* The MPU resolver: [spaces |-> new_spaces, aliases |-> aliases].
RECURSIVE mpu_spaces_loop(_, _, _)
mpu_spaces_loop(spaces, done, al) ==
    IF spaces = <<>> THEN [spaces |-> done, aliases |-> al]
    ELSE LET one == mpu_one_space(Head(spaces), al)
         IN mpu_spaces_loop(Tail(spaces), Append(done, one.space), one.al)

mpu_remove_overlapping_memory(spaces) == mpu_spaces_loop(spaces, <<>>, <<>>)

----------------------------------------------------------------------------
(* The values of the variables of a part of the program that a run does  *)
(* not touch.                                                            *)

NoSpaces == <<>>

NoGroup == [name |-> "", size |-> 0, modes |-> <<>>, members |-> <<>>]

NoGroupDef == [structs |-> <<>>, union |-> <<>>]

NoField == [mask |-> 0]

NoMacros == [Msk |-> 0, Pos |-> 0]

\* Python's None where the code expects an object.
None == [name |-> "None"]

NoPlan == [main_flash_region |-> None, main_ram_region |-> None,
           main_bootflash_region |-> None, itcm_region |-> None, dtcm_region |-> None]

\* No link has been made with the script.
NoDefsym == [data |-> 0]
NoSymbols == [HeapLimit |-> 0]

LinkIdle ==
    /\ defsym = NoDefsym
    /\ symbols = NoSymbols
    /\ link_error = "none"

\* No list object is tracked.
ObjIdle ==
    /\ objects = <<>>
    /\ input_refs = <<>>
    /\ unique_refs = <<>>

\* No batch is being made.
BatchIdle ==
    /\ batch = <<>>
    /\ device_index = 0
    /\ files = {}
    /\ device_families = <<>>

\* No module is being read.
ReadIdle ==
    /\ module_element = <<>>
    /\ register_groups = <<>>

NoVectorFile == [maker |-> "none"]

\* No vector table is being made.
VectorIdle ==
    /\ interrupts = <<>>
    /\ vector_file = NoVectorFile

\* A name of __main__ that no statement has bound yet.
Unbound == <<"unbound">>

\* The batch driver has not started.
DriverIdle ==
    /\ ld_path = Unbound
    /\ big_header = <<>>

ExtIdle == ReadIdle /\ VectorIdle /\ DriverIdle

\* The list objects of the device: one per address space, in order.
ObjectsInput ==
    /\ objects = [k \in 1..Len(address_spaces) |-> address_spaces[k].mem_regions]
    /\ input_refs = [k \in 1..Len(address_spaces) |-> k]
    /\ unique_refs = <<>>

\* The state of the parts of the program that a run of memory-map
\* resolution, register layout or bitfield macros does not touch.
RestIdle ==
    /\ device_name = ""
    /\ peripherals = <<>>
    /\ plan = NoPlan
    /\ outfile = <<>>
    /\ error_msg = <<>>
    /\ fuse_decls = <<>>
    /\ LinkIdle
    /\ ObjIdle
    /\ BatchIdle
    /\ ExtIdle

----------------------------------------------------------------------------
(* The inputs and the runs of the two linker script makers. *)

\* The extents [start, start + size) inside 0..MaxAddr, size at least 1.
Extents == {e \in (0..(MaxAddr - 1)) \X (1..MaxAddr) : e[1] + e[2] <= MaxAddr}

\* The position of a name in the order in which the model hands out the
\* names other than IMEMORIES.
NameRank(name) ==
    CASE name = "FLASH" -> 1
      [] name = "NVMCTRL_FLASH" -> 2
      [] name = "SRAM0" -> 3
      [] OTHER -> 0

\* The names of n regions. The name of a memory segment identifies it in
\* the linker script, so the names of a device are distinct. The resolvers
\* compare names for equality and with 'imemories' only, so one naming
\* stands for all its renamings: the names other than IMEMORIES come in
\* the order of their rank, IMEMORIES comes anywhere.
RegionNameLists(n) ==
    {names \in [1..n -> RegionNames] :
        \A a, b \in 1..n :
            a < b => /\ names[a] # names[b]
                     /\ (NameRank(names[a]) # 0 /\ NameRank(names[b]) # 0)
                           => NameRank(names[a]) < NameRank(names[b])}

\* DeviceMemoryRegion(name, start_addr, size) for each of the names.
MemRegions(names, extents) ==
    [x \in 1..Len(names) |->
        [name |-> names[x], start_addr |-> extents[x][1], size |-> extents[x][2]]]

\* The start of the address space the regions live in; only a region's
\* absolute address depends on it.
SpaceStart == 8

InitMem ==
    /\ pc = "input"
    /\ \E n \in 0..MaxRegions :
          \E names \in RegionNameLists(n), extents \in [1..n -> Extents] :
              address_spaces = <<[id |-> "base", start_addr |-> SpaceStart,
                                  size |-> MaxAddr,
                                  mem_regions |-> MemRegions(names, extents)]>>
    /\ unique_addr_spaces = <<>>
    /\ aliases = <<>>
    /\ maker = "none"
    /\ group = NoGroup
    /\ group_def = NoGroupDef
    /\ field = NoField
    /\ field_macros = NoMacros
    /\ value = 0
    /\ field_value = 0
    /\ raised = "none"
    /\ RestIdle

\* cortexm_linker_script_maker.run, lines 50-55.
CortexM_run ==
    /\ pc = "input"
    /\ unique_addr_spaces' = SortSpaces(cortexm_remove_overlapping_memory(address_spaces))
    /\ aliases' = <<>>
    /\ maker' = "cortexm"
    /\ pc' = "resolved"
    /\ UNCHANGED <<address_spaces, layoutVars, fieldVars, raised, restVars>>

\* arm_mpu_linker_script_maker.run, lines 50-56.
Mpu_run ==
    /\ pc = "input"
    /\ LET res == mpu_remove_overlapping_memory(remove_known_problematic_regions(address_spaces))
       IN /\ unique_addr_spaces' = SortSpaces(res.spaces)
          /\ aliases' = res.aliases
    /\ maker' = "mpu"
    /\ pc' = "resolved"
    /\ UNCHANGED <<address_spaces, layoutVars, fieldVars, raised, restVars>>

NextMem == CortexM_run \/ Mpu_run

SpecMem == InitMem /\ [][NextMem]_vars

----------------------------------------------------------------------------
(* Memory-map resolution: the vocabulary of the properties. *)

SetOf(seq) == {seq[x] : x \in 1..Len(seq)}

EndOf(r) == r.start_addr + r.size

SameExtent(a, b) == a.start_addr = b.start_addr /\ EndOf(a) = EndOf(b)

\* a lies inside b (a = b in extent included).
Inside(a, b) == a.start_addr >= b.start_addr /\ EndOf(a) <= EndOf(b)

StrictlyInside(a, b) == Inside(a, b) /\ ~SameExtent(a, b)

Disjoint(a, b) == EndOf(a) <= b.start_addr \/ EndOf(b) <= a.start_addr

\* Whether the run has resolved the memory map.
Resolved == pc = "resolved"

\* The regions the resolver of the maker that ran was given for address space k.
ResolverInput(k) ==
    IF maker = "mpu"
    THEN SelectSeq(address_spaces[k].mem_regions, LAMBDA r : r.name # "IMEMORIES")
    ELSE address_spaces[k].mem_regions

Survivors(k) == SetOf(unique_addr_spaces[k].mem_regions)

\* Scenario A of the spec, scaled to the model's addresses.
ScenarioA == <<[name |-> "FLASH", start_addr |-> 0, size |-> 2],
               [name |-> "NVMCTRL_FLASH", start_addr |-> 0, size |-> 2]>>

\* Scenario B of the spec, scaled to the model's addresses.
ScenarioB == <<[name |-> "IMEMORIES", start_addr |-> 0, size |-> 3],
               [name |-> "SRAM0", start_addr |-> 0, size |-> 1]>>

----------------------------------------------------------------------------
OverlapsAreNested(regions) ==
    \A a, b \in regions : Disjoint(a, b) \/ Inside(a, b) \/ Inside(b, a)

----------------------------------------------------------------------------
Duplicates(inp, i) == {d \in 1..Len(inp) : SameExtent(inp[d], inp[i])}

Earliest(S) == CHOOSE x \in S : \A y \in S : x <= y

Latest(S) == CHOOSE x \in S : \A y \in S : y <= x

----------------------------------------------------------------------------
(* C3 as stated: a region contained in a larger region is removed and a    *)
(* region no other region contains is kept; IMEMORIES containing SRAM0     *)
(* resolves to IMEMORIES alone.                                            *)
C3_ContainedRemovedAsStated ==
    Resolved =>
        /\ \A k \in 1..Len(address_spaces) :
            LET inp == SetOf(address_spaces[k].mem_regions)
            IN /\ \A a, b \in inp : StrictlyInside(a, b) => a \notin Survivors(k)
               /\ \A b \in inp :
                    (\A c \in inp \ {b} : ~Inside(b, c)) => b \in Survivors(k)
        /\ address_spaces[1].mem_regions = ScenarioB =>
              unique_addr_spaces[1].mem_regions = <<ScenarioB[1]>>

(* C3: among the regions the resolver is given (for the MPU maker: the     *)
(* regions not named IMEMORIES, which it drops first) a region contained   *)
(* in a larger one is removed and a region no other region contains is     *)
(* kept. IMEMORIES containing SRAM0 resolves to IMEMORIES alone in the     *)
(* Cortex-M maker and to SRAM0 alone in the MPU maker.                     *)
C3_ContainedRemoved ==
    Resolved =>
        /\ \A k \in 1..Len(address_spaces) :
            LET inp == SetOf(ResolverInput(k))
            IN /\ \A a, b \in inp : StrictlyInside(a, b) => a \notin Survivors(k)
               /\ \A b \in inp :
                    (\A c \in inp \ {b} : ~Inside(b, c)) => b \in Survivors(k)
               /\ Survivors(k) \subseteq inp
        /\ address_spaces[1].mem_regions = ScenarioB =>
              unique_addr_spaces[1].mem_regions =
                  IF maker = "mpu" THEN <<ScenarioB[2]>> ELSE <<ScenarioB[1]>>

\* Scenario B resolved by the MPU maker: SRAM0 is what is left.
C3_Witness ==
    /\ Resolved
    /\ maker = "mpu"
    /\ address_spaces[1].mem_regions = ScenarioB
    /\ unique_addr_spaces[1].mem_regions = <<ScenarioB[2]>>

----------------------------------------------------------------------------
----------------------------------------------------------------------------
(* cortexm_c_periph_header_maker: the struct of a register group.         *)
(* A struct is modelled by the lines the code emits between the braces:   *)
(*   [kind |-> "pad", at, bytes]          uint8_t unused_0x<at>[<bytes>]; *)
(*   [kind |-> "member", at, bytes, idx]  <type> <name>; or <name>[count] *)
(* where at is the value of current_offset when the line is emitted and   *)
(* idx the position of the member in group.members.                       *)

\* Most members of a register group.
MaxMembers == 2

\* Member offsets are the multiples of 4 up to 4 * MaxWord.
MaxWord == 1

Offsets == {4 * w : w \in 0..MaxWord}

\* (size, count) of a member: a 16-bit register, a 32-bit register, an
\* array of two 32-bit registers.
SizeCounts == {<<2, 0>>, <<4, 0>>, <<4, 2>>}

\* The modes a member may name; "" is no mode.
MemberModes == {"", "SPI", "I2C"}

\* The mode lists a group may declare.
GroupModes == {<<>>, <<"SPI">>, <<"SPI", "I2C">>}

\* The declared sizes of a group; 0 is the size of a group that declares none.
GroupSizes == {0, 8, 12}

\* A slip of the mode test: a member without a mode is left out of a mode's struct.
member_included_moded_only(mode, member) ==
    ~(mode # "" /\ mode # member.mode)

\* A slip of the mode test: the modes are not compared at all.
member_included_always(mode, member) == TRUE

\* Line 274, negated: whether the struct for mode takes the member.
\* An empty string is false in Python.
member_included(mode, member) ==
    ~(mode # "" /\ member.mode # "" /\ mode # member.mode)

\* A slip of the array branch: the cursor advances by one element only.
struct_member_one_element(member, idx, st) ==
    LET padded == IF st.current_offset # member.offset
                  THEN [items |-> Append(st.items,
                                         [kind |-> "pad", at |-> st.current_offset,
                                          bytes |-> member.offset - st.current_offset]),
                        current_offset |-> member.offset]
                  ELSE st
        bytes == IF member.count # 0 THEN member.size * member.count ELSE member.size
    IN [items |-> Append(padded.items,
                         [kind |-> "member", at |-> padded.current_offset,
                          bytes |-> bytes, idx |-> idx]),
        current_offset |-> padded.current_offset + member.size]

\* Lines 277-304 for one included member; st = [items, current_offset].
struct_member(member, idx, st) ==
    LET padded == IF st.current_offset # member.offset
                  THEN [items |-> Append(st.items,
                                         [kind |-> "pad", at |-> st.current_offset,
                                          bytes |-> member.offset - st.current_offset]),
                        current_offset |-> member.offset]
                  ELSE st
        bytes == IF member.count # 0 THEN member.size * member.count ELSE member.size
    IN [items |-> Append(padded.items,
                         [kind |-> "member", at |-> padded.current_offset,
                          bytes |-> bytes, idx |-> idx]),
        current_offset |-> padded.current_offset + bytes]

\* The loop 'for member in group.members', lines 272-304.
RECURSIVE struct_members(_, _, _, _)
struct_members(members, mode, idx, st) ==
    IF idx > Len(members) THEN st
    ELSE IF member_included(mode, members[idx])
         THEN struct_members(members, mode, idx + 1, struct_member(members[idx], idx, st))
         ELSE struct_members(members, mode, idx + 1, st)

\* A slip of the trailing padding: the whole declared size is padded.
struct_end_padding_whole_size(size, st) ==
    IF st.current_offset < size
    THEN Append(st.items, [kind |-> "pad", at |-> st.current_offset, bytes |-> size])
    ELSE st.items

\* Lines 306-309: the padding at the end of the struct.
struct_end_padding(size, st) ==
    IF st.current_offset < size
    THEN Append(st.items,
                [kind |-> "pad", at |-> st.current_offset, bytes |-> size - st.current_offset])
    ELSE st.items

\* _get_register_struct(periph_name, group, mode): the lines of the struct
\* and the value current_offset has after the last member.
get_register_struct(grp, mode) ==
    LET st == struct_members(grp.members, mode, 1, [items |-> <<>>, current_offset |-> 0])
    IN [mode |-> mode,
        items |-> struct_end_padding(grp.size, st),
        current_offset |-> st.current_offset]

\* _get_register_group_definition(periph_name, group): a struct per mode
\* and a union of them, or one struct when the group has no modes.
get_register_group_definition(grp) ==
    IF grp.modes # <<>>
    THEN [structs |-> [m \in 1..Len(grp.modes) |-> get_register_struct(grp, grp.modes[m])],
          union   |-> grp.modes]
    ELSE [structs |-> <<get_register_struct(grp, "")>>,
          union   |-> <<>>]

RegisterGroupMember ==
    {[mode |-> m, offset |-> o, size |-> sc[1], count |-> sc[2]] :
        m \in MemberModes, o \in Offsets, sc \in SizeCounts}

\* RegisterGroup(name, size, modes, members)
RegisterGroup(size, modes, members) ==
    [name |-> "SERCOM", size |-> size, modes |-> modes, members |-> members]

InitLayout ==
    /\ pc = "input"
    /\ \E size \in GroupSizes, modes \in GroupModes, n \in 0..MaxMembers :
          \E members \in [1..n -> RegisterGroupMember] :
              group = RegisterGroup(size, modes, members)
    /\ group_def = NoGroupDef
    /\ address_spaces = NoSpaces
    /\ unique_addr_spaces = <<>>
    /\ aliases = <<>>
    /\ maker = "none"
    /\ field = NoField
    /\ field_macros = NoMacros
    /\ value = 0
    /\ field_value = 0
    /\ raised = "none"
    /\ RestIdle

\* cortexm_c_periph_header_maker.run, line 62, for one register group. No
\* statement of _get_register_group_definition or _get_register_struct raises.
GetRegisterGroupDefinition ==
    /\ pc = "input"
    /\ group_def' = get_register_group_definition(group)
    /\ raised' = "none"
    /\ pc' = "laid"
    /\ UNCHANGED <<group, memVars, fieldVars, restVars>>

NextLayout == GetRegisterGroupDefinition

SpecLayout == InitLayout /\ [][NextLayout]_vars

\* The bytes a member takes: lines 298-302.
MemberBytes(member) ==
    IF member.count # 0 THEN member.size * member.count ELSE member.size

\* The register groups whose declared size covers every one of their members.
InitLayoutSized ==
    /\ InitLayout
    /\ \A i \in 1..Len(group.members) :
          group.members[i].offset + MemberBytes(group.members[i]) <= group.size

SpecLayoutSized == InitLayoutSized /\ [][NextLayout]_vars

----------------------------------------------------------------------------
(* Register layout: the vocabulary of the properties. *)

Laid == pc = "laid"

\* The sum of the array sizes of the lines of a struct.
RECURSIVE TotalBytes(_)
TotalBytes(items) ==
    IF items = <<>> THEN 0 ELSE Head(items).bytes + TotalBytes(Tail(items))

\* The members of the group a struct contains.
MembersOf(struct) == {struct.items[x].idx : x \in {y \in 1..Len(struct.items) : struct.items[y].kind = "member"}}

\* The lines of a struct up to the padding at its end.
Body(struct) ==
    IF struct.items # <<>> /\ struct.items[Len(struct.items)].kind = "pad"
       /\ struct.items[Len(struct.items)].at = struct.current_offset
       /\ (Len(struct.items) = 1 \/ struct.items[Len(struct.items) - 1].kind = "member")
    THEN SubSeq(struct.items, 1, Len(struct.items) - 1)
    ELSE struct.items

\* Whether the struct ends with a padding of n bytes behind its last member.
EndsWithPadding(struct, n) ==
    /\ struct.items # <<>>
    /\ struct.items[Len(struct.items)] =
          [kind |-> "pad", at |-> struct.current_offset, bytes |-> n]
    /\ (Len(struct.items) = 1 \/ struct.items[Len(struct.items) - 1].kind = "member")

\* Whether the struct ends with its last member (or is empty).
EndsWithMember(struct) ==
    struct.items = <<>> \/ struct.items[Len(struct.items)].kind = "member"

\* Scenario C of the spec.
ScenarioC ==
    [name |-> "SERCOM", size |-> 8, modes |-> <<"SPI", "I2C">>,
     members |-> <<[mode |-> "SPI", offset |-> 4, size |-> 4, count |-> 0],
                   [mode |-> "I2C", offset |-> 4, size |-> 4, count |-> 0]>>]

\* The members of the group that name a mode the group does not declare.
UnknownModeMembers ==
    {i \in 1..Len(group.members) :
        group.members[i].mode # "" /\ group.members[i].mode \notin SetOf(group.modes)}

----------------------------------------------------------------------------
(* C5: in every struct of a register group the cursor (current_offset)     *)
(* never decreases from one emitted line to the next, every padding has a  *)
(* positive size, emitted only where a member's offset is beyond the       *)
(* cursor, and the final cursor is at most the group's declared size.      *)
(* Checked on the groups whose declared size covers every member.          *)
C5_CursorMonotone ==
    Laid =>
        \A v \in 1..Len(group_def.structs) :
            LET struct == group_def.structs[v]
            IN /\ \A x \in 1..Len(Body(struct)) :
                    Body(struct)[x].kind = "pad" => Body(struct)[x].bytes > 0
               /\ \A x, y \in 1..Len(struct.items) :
                    x < y => struct.items[x].at <= struct.items[y].at
               /\ struct.current_offset <= group.size

----------------------------------------------------------------------------
(* C6 as stated: a struct whose members end beyond the declared size is    *)
(* not emitted, the call fails with LayoutOverflowError; a struct whose    *)
(* members end before the declared size gets a trailing padding of the     *)
(* difference.                                                             *)
C6_OverflowFails ==
    Laid =>
        \A v \in 1..Len(group_def.structs) :
            LET struct == group_def.structs[v]
            IN /\ group.size < struct.current_offset => raised = "LayoutOverflowError"
               /\ group.size > struct.current_offset =>
                     EndsWithPadding(struct, group.size - struct.current_offset)

(* C6: the call raises nothing and emits a struct per mode whatever the    *)
(* declared size. A struct whose members end before the declared size      *)
(* ends with a padding of exactly the difference; a struct whose members   *)
(* end at or beyond the declared size ends with its last member, without   *)
(* a trailing padding.                                                     *)
C6_TrailingPaddingOnly ==
    Laid =>
        /\ raised = "none"
        /\ Len(group_def.structs) >= 1
        /\ \A v \in 1..Len(group_def.structs) :
            LET struct == group_def.structs[v]
            IN IF group.size > struct.current_offset
               THEN EndsWithPadding(struct, group.size - struct.current_offset)
               ELSE EndsWithMember(struct)

\* A group with a mode whose members end beyond the declared size and a
\* mode whose members end before it.
C6_Witness ==
    /\ Laid
    /\ \E v \in 1..Len(group_def.structs) :
          group_def.structs[v].current_offset > group.size
    /\ \E v \in 1..Len(group_def.structs) :
          /\ group_def.structs[v].current_offset < group.size
          /\ group_def.structs[v].current_offset > 0

----------------------------------------------------------------------------
----------------------------------------------------------------------------
(* C8: a group with modes gets exactly one struct per declared mode, in    *)
(* the order of the modes, and the struct of mode m holds exactly the      *)
(* members whose mode is empty or m; a group without modes gets exactly    *)
(* one struct. Scenario C gives two structs, each a padding of 4 bytes and *)
(* one register of 4 bytes, 8 bytes in total.                              *)
C8_OneVariantPerMode ==
    Laid =>
        /\ group.modes # <<>> =>
              /\ Len(group_def.structs) = Len(group.modes)
              /\ group_def.union = group.modes
              /\ \A m \in 1..Len(group.modes) :
                    /\ group_def.structs[m].mode = group.modes[m]
                    /\ MembersOf(group_def.structs[m]) =
                          {i \in 1..Len(group.members) :
                              group.members[i].mode \in {"", group.modes[m]}}
        /\ group.modes = <<>> => Len(group_def.structs) = 1
        /\ group = ScenarioC =>
              /\ Len(group_def.structs) = 2
              /\ \A m \in 1..2 :
                    /\ group_def.structs[m].items =
                          <<[kind |-> "pad", at |-> 0, bytes |-> 4],
                            [kind |-> "member", at |-> 4, bytes |-> 4, idx |-> m]>>
                    /\ TotalBytes(group_def.structs[m].items) = 8

\* Scenario C laid out.
C8_Witness ==
    /\ Laid
    /\ group = ScenarioC
    /\ Len(group_def.structs) = 2

----------------------------------------------------------------------------
(* C9 as stated: a member that names a mode its group does not declare     *)
(* makes the call fail with UnknownModeReference.                          *)
C9_UnknownModeRaises ==
    Laid => (UnknownModeMembers # {} => raised = "UnknownModeReference")

(* C9: a member that names a mode its group does not declare raises        *)
(* nothing and the group's structs are emitted: the member is in none of   *)
(* the structs of a group that declares modes, and in the one struct of a  *)
(* group that declares none.                                               *)
C9_UnknownModeIgnored ==
    Laid =>
        /\ raised = "none"
        /\ Len(group_def.structs) >= 1
        /\ \A i \in UnknownModeMembers :
              IF group.modes # <<>>
              THEN \A v \in 1..Len(group_def.structs) : i \notin MembersOf(group_def.structs[v])
              ELSE i \in MembersOf(group_def.structs[1])

\* A group that declares SPI only, with an I2C member next to an SPI member.
C9_Witness ==
    /\ Laid
    /\ group.modes = <<"SPI">>
    /\ UnknownModeMembers # {}
    /\ MembersOf(group_def.structs[1]) # {}

----------------------------------------------------------------------------
(* cortexm_c_periph_header_maker._get_bitfield_macros *)

\* Masks are the integers of MaskBits bits.
MaskBits == 7

RECURSIVE Pow2(_)
Pow2(n) == IF n = 0 THEN 1 ELSE 2 * Pow2(n - 1)

\* x & y for non-negative x and y.
RECURSIVE BitAnd(_, _)
BitAnd(x, y) ==
    IF x = 0 \/ y = 0 THEN 0
    ELSE (x % 2) * (y % 2) + 2 * BitAnd(x \div 2, y \div 2)

\* mask & -mask: Python integers are two's complement numbers of unbounded
\* width, so the bits of -mask above those of mask are ones and meet zeros
\* of mask; the bits up to MaskBits are those of 2^(MaskBits+1) - mask.
AndWithNegation(mask) ==
    BitAnd(mask, (Pow2(MaskBits + 1) - mask) % Pow2(MaskBits + 1))

\* int.bit_length(): the number of bits of n, 0 for 0.
RECURSIVE bit_length(_)
bit_length(n) == IF n = 0 THEN 0 ELSE 1 + bit_length(n \div 2)

\* A slip: the position of the highest set bit, the mask is not reduced to
\* its lowest bit first.
bitfield_pos_of_top_bit(mask) == bit_length(mask) - 1

\* Line 213: pos = (mask & -mask).bit_length() - 1
bitfield_pos(mask) == bit_length(AndWithNegation(mask)) - 1

\* _get_bitfield_macros(field_macro_name, mask, caption): the values of
\* the _Msk and _Pos macros.
get_bitfield_macros(mask) == [Msk |-> mask, Pos |-> bitfield_pos(mask)]

InitField ==
    /\ pc = "input"
    /\ field \in [mask : 0..(Pow2(MaskBits) - 1)]
    /\ field_macros = NoMacros
    /\ value = 0
    /\ field_value = 0
    /\ address_spaces = NoSpaces
    /\ unique_addr_spaces = <<>>
    /\ aliases = <<>>
    /\ maker = "none"
    /\ group = NoGroup
    /\ group_def = NoGroupDef
    /\ raised = "none"
    /\ RestIdle

\* _get_register_macros, lines 144-151, for one field. No statement of
\* _get_bitfield_macros raises.
GetBitfieldMacros ==
    /\ pc = "input"
    /\ field_macros' = get_bitfield_macros(field.mask)
    /\ raised' = "none"
    /\ pc' = "macros"
    /\ UNCHANGED <<field, value, field_value, memVars, layoutVars, restVars>>

\* x << n on the uint32_t of the model, an unsigned integer of MaskBits bits.
ShiftLeft(x, n) == (x * Pow2(n)) % Pow2(MaskBits)

\* What '(uint32_t)(v) << <name>_Pos' can evaluate to. The macro <name>_Pos
\* is the text '<pos>ul'; for pos = -1 that is the largest unsigned long, and
\* a shift by the width of the operand or more is undefined in C.
ShiftOutcomes(v, pos) ==
    IF pos >= 0 /\ pos < MaskBits
    THEN {ShiftLeft(v, pos)}
    ELSE 0..(Pow2(MaskBits) - 1)

\* A slip of the setter macro: the shifted value is not masked.
bitfield_set_unmasked(macros, shifted) == shifted

\* Lines 217-218, the macro <name>(v): <name>_Msk & ((uint32_t)(v) << <name>_Pos),
\* given what the shift evaluates to.
bitfield_set(macros, shifted) == BitAnd(macros.Msk, shifted)

\* A use of the setter macro <name>(v) in a C program, with an argument of
\* the width of a register.
ApplyFieldMacro ==
    /\ pc = "macros"
    /\ \E v \in 0..(Pow2(MaskBits) - 1) :
          \E shifted \in ShiftOutcomes(v, field_macros.Pos) :
              /\ value' = v
              /\ field_value' = bitfield_set(field_macros, shifted)
    /\ pc' = "set"
    /\ UNCHANGED <<field, field_macros, memVars, layoutVars, raised, restVars>>

NextField == GetBitfieldMacros \/ ApplyFieldMacro

SpecField == InitField /\ [][NextField]_vars

----------------------------------------------------------------------------
(* Bitfield macros: the vocabulary of the properties. *)

HasMacros == pc = "macros"

\* The index of the least significant set bit of a non-zero mask.
LowestSetBit(mask) ==
    CHOOSE b \in 0..MaskBits : mask % Pow2(b + 1) = Pow2(b)

----------------------------------------------------------------------------
(* C10 as stated: the position is the index of the least significant set   *)
(* bit of the mask, and a zero mask is an error, not a position.           *)
C10_ZeroMaskIsError ==
    HasMacros =>
        /\ field.mask # 0 => field_macros.Pos = LowestSetBit(field.mask)
        /\ field.mask = 0 => raised # "none"

(* C10: for a non-zero mask the position is the index of the least         *)
(* significant set bit of the mask; a zero mask raises nothing and gets    *)
(* the position -1.                                                        *)
C10_PositionOfLowestBit ==
    HasMacros =>
        /\ field_macros.Msk = field.mask
        /\ field.mask # 0 => field_macros.Pos = LowestSetBit(field.mask)
        /\ field.mask = 0 => (field_macros.Pos = -1 /\ raised = "none")

\* The macros of a mask of several bits whose lowest bit is not bit 0.
C10_Witness ==
    /\ HasMacros
    /\ field.mask = 12
    /\ field_macros.Pos = 2

----------------------------------------------------------------------------
(* The setter macro: the vocabulary of the properties. *)

FieldIsSet == pc = "set"

\* The number of set bits of a mask.
RECURSIVE PopCount(_)
PopCount(n) == IF n = 0 THEN 0 ELSE (n % 2) + PopCount(n \div 2)

\* The bit-width of a field: the number of bits its mask has.
FieldWidth(mask) == PopCount(mask)

\* Whether v fits the bit-width of the field.
Fits(v, mask) == v < Pow2(FieldWidth(mask))

\* Whether the set bits of a non-zero mask are one run of adjacent bits.
Contiguous(mask) ==
    mask = (Pow2(FieldWidth(mask)) - 1) * Pow2(LowestSetBit(mask))

----------------------------------------------------------------------------
(* C11 as stated: for every mask m, its position pos and every value v     *)
(* that fits the width of the field, the setter macro keeps the shifted    *)
(* value whole: (v << pos) & m = v << pos. Stated here for the masks that  *)
(* have a set bit, the others have no position to shift by.                *)
C11_RoundTripEveryMask ==
    (FieldIsSet /\ field.mask # 0 /\ Fits(value, field.mask)) =>
        field_value = value * Pow2(field_macros.Pos)

(* C11: for every non-zero mask m whose set bits are adjacent, its         *)
(* position pos and every value v that fits the width of the field, the    *)
(* setter macro gives (v << pos) & m = v << pos. For any other non-zero    *)
(* mask the macro gives the bits of v << pos that are in m, and for the    *)
(* mask 0, whose position is -1, it gives 0.                               *)
C11_RoundTripContiguous ==
    FieldIsSet =>
        /\ (field.mask # 0 /\ Contiguous(field.mask) /\ Fits(value, field.mask)) =>
              /\ field_macros.Pos >= 0
              /\ field_value = value * Pow2(field_macros.Pos)
        /\ field.mask # 0 =>
              field_value = BitAnd(field.mask, ShiftLeft(value, LowestSetBit(field.mask)))
        /\ field.mask = 0 => field_value = 0

\* The value 3 set in the two-bit field of mask 12.
C11_Witness ==
    /\ FieldIsSet
    /\ field.mask = 12
    /\ value = 3
    /\ field_value = 12

----------------------------------------------------------------------------
(* cortexm_linker_script_maker: the selection of the main regions.         *)

\* The body of the loops of _find_biggest_memory_region, lines 190-203, for
\* one region of one address space.
find_biggest_step(addr_space, region, type, is_external, partial_name, biggest) ==
    IF region.external # is_external \/ type # lower(region.type)
    THEN biggest
    ELSE IF partial_name # "" /\ ~IsIn(lower(partial_name), lower(region.name))
         THEN biggest
         ELSE IF biggest = None \/ region.size > biggest.size
              THEN [name |-> region.name,
                    start_addr |-> addr_space.start_addr + region.start_addr,
                    size |-> region.size, type |-> region.type,
                    page_size |-> region.page_size, external |-> region.external]
              ELSE biggest

\* for addr_space in address_spaces: for region in addr_space.mem_regions
RECURSIVE find_biggest_loop(_, _, _, _, _, _, _)
find_biggest_loop(address_spaces_, k, x, type, is_external, partial_name, biggest) ==
    IF k > Len(address_spaces_) THEN biggest
    ELSE IF x > Len(address_spaces_[k].mem_regions)
         THEN find_biggest_loop(address_spaces_, k + 1, 1, type, is_external, partial_name, biggest)
         ELSE find_biggest_loop(address_spaces_, k, x + 1, type, is_external, partial_name,
                                find_biggest_step(address_spaces_[k],
                                                  address_spaces_[k].mem_regions[x],
                                                  type, is_external, partial_name, biggest))

\* _find_biggest_memory_region(address_spaces, type, is_external, partial_name)
find_biggest_memory_region(address_spaces_, type, is_external, partial_name) ==
    find_biggest_loop(address_spaces_, 1, 1, type, is_external, partial_name, None)

\* A slip of the fallback: the search for external flash is left out.
select_main_flash_no_external(spaces) ==
    LET internal == find_biggest_memory_region(spaces, "flash", FALSE, "")
    IN IF internal # None THEN internal
       ELSE find_biggest_memory_region(spaces, "ram", FALSE, "")

\* run, lines 59 and 65-70: the main flash region and its fallbacks.
select_main_flash(spaces) ==
    LET internal == find_biggest_memory_region(spaces, "flash", FALSE, "")
        external == find_biggest_memory_region(spaces, "flash", TRUE, "")
    IN IF internal # None THEN internal
       ELSE IF external # None THEN external
            ELSE find_biggest_memory_region(spaces, "ram", FALSE, "")

\* run, lines 59-70: the regions the script is built around.
select_regions(spaces) ==
    [main_flash_region     |-> select_main_flash(spaces),
     main_ram_region       |-> find_biggest_memory_region(spaces, "ram", FALSE, ""),
     main_bootflash_region |-> find_biggest_memory_region(spaces, "flash", FALSE, "bfm"),
     itcm_region           |-> find_biggest_memory_region(spaces, "ram", FALSE, "itcm"),
     dtcm_region           |-> find_biggest_memory_region(spaces, "ram", FALSE, "dtcm")]

\* _get_memory_symbols: the symbols of the main regions and the default
\* sizes of the stack and the heap.
get_memory_symbols(main_flash_region, main_ram_region) ==
    [chunk |-> "symbols",
     ROM_BASE |-> main_flash_region.start_addr, ROM_SIZE |-> main_flash_region.size,
     RAM_BASE |-> main_ram_region.start_addr, RAM_SIZE |-> main_ram_region.size,
     PROVIDE |-> [STACK_SIZE |-> 1024, HEAP_SIZE |-> 3072],
     STACKSEAL_SIZE |-> 0]

\* The line of _get_MEMORY_regions for one region, lines 246-259.
MEMORY_line(addr_space, region, main_flash_region, main_ram_region, main_bootflash_region) ==
    LET name == lower(region.name)
    IN [name |-> name,
        attr |-> IF name = lower(main_flash_region.name) THEN "rx"
                 ELSE IF main_bootflash_region # None /\ name = lower(main_bootflash_region.name)
                      THEN "rx"
                      ELSE IF name = lower(main_ram_region.name) THEN "rwx" ELSE "",
        ORIGIN |-> addr_space.start_addr + region.start_addr,
        LENGTH |-> region.size]

\* _get_MEMORY_regions: a line per region of every address space.
RECURSIVE get_MEMORY_regions(_, _, _, _)
get_MEMORY_regions(spaces, main_flash_region, main_ram_region, main_bootflash_region) ==
    IF spaces = <<>> THEN <<>>
    ELSE [x \in 1..Len(Head(spaces).mem_regions) |->
              MEMORY_line(Head(spaces), Head(spaces).mem_regions[x],
                          main_flash_region, main_ram_region, main_bootflash_region)]
         \o get_MEMORY_regions(Tail(spaces), main_flash_region, main_ram_region,
                               main_bootflash_region)

----------------------------------------------------------------------------
(* The fuses peripheral: its regions in the linker script                  *)
(* (cortexm_linker_script_maker._get_fuse_MEMORY) and its declarations in  *)
(* the device header (arm_c_device_header_maker).                          *)
(* The name '<instance>_<register><i>' of an element is modelled by the    *)
(* tuple <<instance, register, i>>, with i = -1 for a register that is     *)
(* not an array.                                                           *)

\* str.upper() on the names the model uses, which are upper-case already.
upper(s) ==
    CASE s = "fuses" -> "FUSES"
      [] s = "which_pic32" -> "WHICH_PIC32"
      [] OTHER -> s

\* for periph in devinfo.peripherals: if 'fuses' == periph.name.lower(): ... break
RECURSIVE find_fuses_periph(_)
find_fuses_periph(periphs) ==
    IF periphs = <<>> THEN None
    ELSE IF "fuses" = lower(Head(periphs).name) THEN Head(periphs)
         ELSE find_fuses_periph(Tail(periphs))

\* for inst in fuses_periph.instances: for ref in inst.reg_group_refs
RECURSIVE reg_group_refs_of(_)
reg_group_refs_of(instances) ==
    IF instances = <<>> THEN <<>>
    ELSE Head(instances).reg_group_refs \o reg_group_refs_of(Tail(instances))

\* The first register group named module_name, None if there is none.
RECURSIVE find_reg_group(_, _)
find_reg_group(reg_groups, module_name) ==
    IF reg_groups = <<>> THEN None
    ELSE IF Head(reg_groups).name = module_name THEN Head(reg_groups)
         ELSE find_reg_group(Tail(reg_groups), module_name)

\* _find_start_of_address_space: the start of the first address space with
\* the id, -1 where the code raises ValueError.
RECURSIVE find_start_of_address_space(_, _)
find_start_of_address_space(addr_spaces, name) ==
    IF addr_spaces = <<>> THEN -1
    ELSE IF name = Head(addr_spaces).id THEN Head(addr_spaces).start_addr
         ELSE find_start_of_address_space(Tail(addr_spaces), name)

\* _get_fuse_MEMORY, lines 285-296: the regions of one register.
fuse_member_MEMORY(ref, base_addr, member) ==
    IF member.count > 0
    THEN [i \in 1..member.count |->
            [name |-> <<lower(ref.instance_name), lower(member.name), i - 1>>,
             ORIGIN |-> base_addr + member.offset + (4 * (i - 1)),
             LENGTH |-> 4]]
    ELSE <<[name |-> <<lower(ref.instance_name), lower(member.name), -1>>,
            ORIGIN |-> base_addr + member.offset,
            LENGTH |-> 4]>>

RECURSIVE fuse_members_MEMORY(_, _, _)
fuse_members_MEMORY(ref, base_addr, members) ==
    IF members = <<>> THEN <<>>
    ELSE fuse_member_MEMORY(ref, base_addr, Head(members))
         \o fuse_members_MEMORY(ref, base_addr, Tail(members))

\* The loop over the references, lines 270-296; the result is the regions
\* and the exception that ended the loop.
RECURSIVE fuse_refs_MEMORY(_, _, _, _)
fuse_refs_MEMORY(addr_spaces, fuses_periph, refs, lines) ==
    IF refs = <<>> THEN [lines |-> lines, raised |-> "none"]
    ELSE LET ref == Head(refs)
             reg_group == find_reg_group(fuses_periph.reg_groups, ref.module_name)
             start == find_start_of_address_space(addr_spaces, ref.addr_space)
         IN IF reg_group = None
            THEN fuse_refs_MEMORY(addr_spaces, fuses_periph, Tail(refs), lines)
            ELSE IF start = -1
                 THEN [lines |-> <<>>, raised |-> "ValueError"]
                 ELSE fuse_refs_MEMORY(addr_spaces, fuses_periph, Tail(refs),
                                       lines \o fuse_members_MEMORY(ref, ref.offset + start,
                                                                    reg_group.members))

\* _get_fuse_MEMORY(addr_spaces, fuses_periph)
get_fuse_MEMORY(addr_spaces, fuses_periph) ==
    fuse_refs_MEMORY(addr_spaces, fuses_periph, reg_group_refs_of(fuses_periph.instances), <<>>)

\* arm_c_device_header_maker._get_reg_type_from_size; "ValueError" where
\* the code raises.
get_reg_type_from_size(size) ==
    IF size > 8 THEN "ValueError"
    ELSE IF size > 4 THEN "uint64_t"
         ELSE IF size > 2 THEN "uint32_t"
              ELSE IF size > 1 THEN "uint16_t"
                   ELSE "uint8_t"

\* _get_device_fuse_declarations, lines 328-354: the <variable>_BASE macro
\* and the declaration of every element of one register; the variable goes
\* to the section '.<instance>_<register><i>' in lower case.
fuse_member_decls(group_ref, base_addr, member) ==
    LET regtype == get_reg_type_from_size(member.size)
    IN IF member.count > 0
       THEN [i \in 1..member.count |->
               [section |-> <<lower(group_ref.instance_name), lower(member.name), i - 1>>,
                variable |-> <<upper(group_ref.instance_name), upper(member.name), i - 1>>,
                BASE |-> base_addr + member.offset + (member.size * (i - 1)),
                regtype |-> regtype]]
       ELSE <<[section |-> <<lower(group_ref.instance_name), lower(member.name), -1>>,
               variable |-> <<upper(group_ref.instance_name), upper(member.name), -1>>,
               BASE |-> base_addr + member.offset,
               regtype |-> regtype]>>

RECURSIVE fuse_members_decls(_, _, _)
fuse_members_decls(group_ref, base_addr, members) ==
    IF members = <<>> THEN [decls |-> <<>>, raised |-> "none"]
    ELSE IF get_reg_type_from_size(Head(members).size) = "ValueError"
         THEN [decls |-> <<>>, raised |-> "ValueError"]
         ELSE LET rest == fuse_members_decls(group_ref, base_addr, Tail(members))
              IN IF rest.raised # "none" THEN rest
                 ELSE [decls |-> fuse_member_decls(group_ref, base_addr, Head(members))
                                   \o rest.decls,
                       raised |-> "none"]

\* The loop over the references, lines 310-354.
RECURSIVE fuse_refs_decls(_, _, _, _)
fuse_refs_decls(addr_spaces, fuse_periph, refs, decls) ==
    IF refs = <<>> THEN [decls |-> decls, raised |-> "none"]
    ELSE LET group_ref == Head(refs)
             reg_group == find_reg_group(fuse_periph.reg_groups, group_ref.module_name)
             start == find_start_of_address_space(addr_spaces, group_ref.addr_space)
         IN IF reg_group = None
            THEN fuse_refs_decls(addr_spaces, fuse_periph, Tail(refs), decls)
            ELSE IF start = -1
                 THEN [decls |-> <<>>, raised |-> "ValueError"]
                 ELSE LET one == fuse_members_decls(group_ref, start + group_ref.offset,
                                                    reg_group.members)
                      IN IF one.raised # "none" THEN one
                         ELSE fuse_refs_decls(addr_spaces, fuse_periph, Tail(refs),
                                              decls \o one.decls)

\* _get_device_fuse_declarations(fuse_periph, addr_spaces)
get_device_fuse_declarations(fuse_periph, addr_spaces) ==
    fuse_refs_decls(addr_spaces, fuse_periph, reg_group_refs_of(fuse_periph.instances), <<>>)

\* A slip of _get_fuse_SECTIONS: one output section for a whole array.
fuse_member_SECTIONS_one_per_array(ref, member) ==
    IF member.count > 0
    THEN <<<<lower(ref.instance_name), lower(member.name), 0>>>>
    ELSE <<<<lower(ref.instance_name), lower(member.name), -1>>>>

\* _get_fuse_SECTIONS, lines 585-596: the output section of every element
\* of one register, placed in the region of the same name.
fuse_member_SECTIONS(ref, member) ==
    IF member.count > 0
    THEN [i \in 1..member.count |-> <<lower(ref.instance_name), lower(member.name), i - 1>>]
    ELSE <<<<lower(ref.instance_name), lower(member.name), -1>>>>

RECURSIVE fuse_members_SECTIONS(_, _)
fuse_members_SECTIONS(ref, members) ==
    IF members = <<>> THEN <<>>
    ELSE fuse_member_SECTIONS(ref, Head(members)) \o fuse_members_SECTIONS(ref, Tail(members))

RECURSIVE fuse_refs_SECTIONS(_, _)
fuse_refs_SECTIONS(fuses, refs) ==
    IF refs = <<>> THEN <<>>
    ELSE LET reg_group == find_reg_group(fuses.reg_groups, Head(refs).module_name)
         IN IF reg_group = None THEN fuse_refs_SECTIONS(fuses, Tail(refs))
            ELSE fuse_members_SECTIONS(Head(refs), reg_group.members)
                 \o fuse_refs_SECTIONS(fuses, Tail(refs))

\* _get_fuse_SECTIONS(addr_spaces, fuses)
get_fuse_SECTIONS(addr_spaces, fuses) ==
    fuse_refs_SECTIONS(fuses, reg_group_refs_of(fuses.instances))

----------------------------------------------------------------------------
(* cortexm_linker_script_maker.run                                         *)
(* The script is modelled by the chunks run() writes, in order; each chunk *)
(* holds what the code puts into the text.                                 *)

\* _get_standard_program_SECTIONS: .vectors goes to the boot flash when
\* there is one, the rest of the program to the main flash.
get_standard_program_SECTIONS(main_flash_region, main_bootflash_region) ==
    [chunk |-> "program_SECTIONS",
     vectors_region |-> IF main_bootflash_region # None
                        THEN lower(main_bootflash_region.name)
                        ELSE lower(main_flash_region.name),
     progflash_name |-> lower(main_flash_region.name)]

\* _get_tcm_data_SECTION: the section of a tightly-coupled memory; the
\* section_name is "ValueError" where the code raises.
get_tcm_data_SECTION(tcm_region) ==
    LET region_name == lower(tcm_region.name)
    IN [chunk |-> "tcm_SECTION",
        section_name |-> IF IsIn("itcm", region_name) THEN "itcm"
                         ELSE IF IsIn("dtcm", region_name) THEN "dtcm"
                              ELSE "ValueError",
        region_name |-> region_name]

\* _get_standard_data_SECTIONS: .data, .tdata, .tbss, .bss, .heap and .stack
\* go to the main RAM, the initial values of .data and .tdata to the main flash.
get_standard_data_SECTIONS(main_flash_region, main_ram_region) ==
    [chunk |-> "data_SECTIONS",
     progflash_name |-> lower(main_flash_region.name),
     ram_name |-> lower(main_ram_region.name)]

\* The writes of run(), lines 87-125, up to the exception that ends them.
\* A chunk the code does not get to is not in the result.
cortexm_write_script(unique, sel, fuses_periph) ==
    LET fuse_MEMORY == IF fuses_periph # None
                       THEN get_fuse_MEMORY(unique, fuses_periph)
                       ELSE [lines |-> <<>>, raised |-> "none"]
        memory == <<[chunk |-> "license"],
                    get_memory_symbols(sel.main_flash_region, sel.main_ram_region),
                    [chunk |-> "MEMORY",
                     lines |-> get_MEMORY_regions(unique, sel.main_flash_region,
                                                  sel.main_ram_region,
                                                  sel.main_bootflash_region)]>>
        sections == <<[chunk |-> "ENTRY"],
                      get_standard_program_SECTIONS(sel.main_flash_region,
                                                    sel.main_bootflash_region)>>
                    \o (IF sel.itcm_region # None
                        THEN <<get_tcm_data_SECTION(sel.itcm_region)>> ELSE <<>>)
                    \o (IF sel.dtcm_region # None
                        THEN <<get_tcm_data_SECTION(sel.dtcm_region)>> ELSE <<>>)
                    \o <<get_standard_data_SECTIONS(sel.main_flash_region,
                                                    sel.main_ram_region)>>
                    \o (IF fuses_periph # None
                        THEN <<[chunk |-> "fuse_SECTIONS",
                                lines |-> get_fuse_SECTIONS(unique, fuses_periph)]>>
                        ELSE <<>>)
                    \o <<[chunk |-> "end"]>>
    IN IF fuse_MEMORY.raised # "none"
       THEN [outfile |-> memory, raised |-> fuse_MEMORY.raised,
             error_msg |-> <<"Address space could not be found!">>]
       ELSE [outfile |-> memory
                         \o (IF fuses_periph # None
                             THEN <<[chunk |-> "fuse_MEMORY", lines |-> fuse_MEMORY.lines]>>
                             ELSE <<>>)
                         \o sections,
             raised |-> "none", error_msg |-> <<>>]

\* run, lines 71-74: the two mandatory regions.
cortexm_check_regions(sel, name) ==
    IF sel.main_flash_region = None
    THEN [raised |-> "RuntimeError",
          error_msg |-> <<"Failed to find a program flash region for ", name>>]
    ELSE IF sel.main_ram_region = None
         THEN [raised |-> "RuntimeError",
               error_msg |-> <<"Failed to find a RAM region for ", name>>]
         ELSE [raised |-> "none", error_msg |-> <<>>]

\* run(devinfo, outfile): the resolved address spaces, the selected
\* regions, what was written and the exception the call ended with.
cortexm_run(name, spaces, periphs) ==
    LET unique == SortSpaces(cortexm_remove_overlapping_memory(spaces))
        sel == select_regions(unique)
        checked == cortexm_check_regions(sel, name)
        written == cortexm_write_script(unique, sel, find_fuses_periph(periphs))
    IN IF checked.raised # "none"
       THEN [unique_addr_spaces |-> unique, plan |-> sel, outfile |-> <<>>,
             raised |-> checked.raised, error_msg |-> checked.error_msg]
       ELSE [unique_addr_spaces |-> unique, plan |-> sel, outfile |-> written.outfile,
             raised |-> written.raised, error_msg |-> written.error_msg]

----------------------------------------------------------------------------
(* arm_mpu_linker_script_maker: the selection of the main regions and run. *)

\* _find_region_by_name, lines 225-236: the name to look for, which is the
\* key of the first alias entry that has the name among its values.
RECURSIVE alias_target(_, _)
alias_target(al, name) ==
    IF al = <<>> THEN name
    ELSE IF \E v \in Head(al).vals : name = lower(v) THEN lower(Head(al).key)
         ELSE alias_target(Tail(al), name)

\* Lines 238-249: the first region whose name is (or, if not exact,
\* contains) the name, as a copy with its absolute start address.
RECURSIVE find_region_loop(_, _, _, _, _)
find_region_loop(address_spaces_, k, x, name, exact) ==
    IF k > Len(address_spaces_) THEN None
    ELSE IF x > Len(address_spaces_[k].mem_regions)
         THEN find_region_loop(address_spaces_, k + 1, 1, name, exact)
         ELSE LET addr_space == address_spaces_[k]
                  region == addr_space.mem_regions[x]
                  region_name == lower(region.name)
              IN IF (~exact /\ IsIn(name, region_name)) \/ name = region_name
                 THEN [name |-> region.name,
                       start_addr |-> addr_space.start_addr + region.start_addr,
                       size |-> region.size, type |-> region.type,
                       page_size |-> region.page_size, external |-> region.external]
                 ELSE find_region_loop(address_spaces_, k, x + 1, name, exact)

\* _find_region_by_name(address_spaces, aliases, name, exact)
find_region_by_name(address_spaces_, al, name, exact) ==
    find_region_loop(address_spaces_, 1, 1, alias_target(al, lower(name)), exact)

\* 'a or b': b when a is None.
Or(a, b) == IF a # None THEN a ELSE b

\* A slip of the lookups: the regions that contain the name are looked for
\* before the known names.
mpu_select_regions_substring_first(spaces, al) ==
    [main_ddr_region  |-> Or(find_region_by_name(spaces, al, "ddr", FALSE),
                          Or(find_region_by_name(spaces, al, "ddr_cs", TRUE),
                             find_region_by_name(spaces, al, "ebi_mpddr", TRUE))),
     main_sram_region |-> Or(find_region_by_name(spaces, al, "sram", FALSE),
                          Or(find_region_by_name(spaces, al, "iram", FALSE),
                          Or(find_region_by_name(spaces, al, "sram0", TRUE),
                             find_region_by_name(spaces, al, "iram", TRUE))))]

\* run, lines 60-72: the main DDR and SRAM regions, looked up by name.
mpu_select_regions(spaces, al) ==
    [main_ddr_region  |-> Or(find_region_by_name(spaces, al, "ddr_cs", TRUE),
                          Or(find_region_by_name(spaces, al, "ebi_mpddr", TRUE),
                             find_region_by_name(spaces, al, "ddr", FALSE))),
     main_sram_region |-> Or(find_region_by_name(spaces, al, "sram0", TRUE),
                          Or(find_region_by_name(spaces, al, "iram", TRUE),
                          Or(find_region_by_name(spaces, al, "sram", FALSE),
                             find_region_by_name(spaces, al, "iram", FALSE))))]

\* A slip of the checks: a device without an SRAM region is let through.
mpu_check_regions_ddr_only(sel, name) ==
    IF sel.main_ddr_region = None
    THEN [raised |-> "RuntimeError",
          error_msg |-> <<"Failed to find a DDR region for ", name>>]
    ELSE [raised |-> "none", error_msg |-> <<>>]

\* run, lines 63-64 and 71-72: the two mandatory regions.
mpu_check_regions(sel, name) ==
    IF sel.main_ddr_region = None
    THEN [raised |-> "RuntimeError",
          error_msg |-> <<"Failed to find a DDR region for ", name>>]
    ELSE IF sel.main_sram_region = None
         THEN [raised |-> "RuntimeError",
               error_msg |-> <<"Failed to find an SRAM region for ", name>>]
         ELSE [raised |-> "none", error_msg |-> <<>>]

\* _get_memory_symbols of the MPU maker: the default sizes of the stacks
\* and of the heap.
mpu_get_memory_symbols ==
    [chunk |-> "symbols",
     PROVIDE |-> [STACK_SIZE |-> 4096, FIQ_STACK_SIZE |-> 512, IRQ_STACK_SIZE |-> 512,
                  SVC_STACK_SIZE |-> 4096, ABT_STACK_SIZE |-> 512, UND_STACK_SIZE |-> 512,
                  HEAP_SIZE |-> 1024]]

\* The line of _get_MEMORY_regions of the MPU maker for one region.
mpu_MEMORY_line(addr_space, region, main_ddr_region, main_sram_region) ==
    LET name == lower(region.name)
    IN [name |-> name,
        attr |-> IF name = lower(main_ddr_region.name) THEN "lwx!r"
                 ELSE IF name = lower(main_sram_region.name) THEN "wx!r" ELSE "",
        ORIGIN |-> addr_space.start_addr + region.start_addr,
        LENGTH |-> region.size]

RECURSIVE mpu_get_MEMORY_regions(_, _, _)
mpu_get_MEMORY_regions(spaces, main_ddr_region, main_sram_region) ==
    IF spaces = <<>> THEN <<>>
    ELSE [x \in 1..Len(Head(spaces).mem_regions) |->
              mpu_MEMORY_line(Head(spaces), Head(spaces).mem_regions[x],
                              main_ddr_region, main_sram_region)]
         \o mpu_get_MEMORY_regions(Tail(spaces), main_ddr_region, main_sram_region)

\* run, lines 111-113: a REGION_ALIAS per alias of every canonical region.
region_aliases(al) ==
    [x \in 1..Len(al) |-> [key |-> lower(al[x].key), vals |-> {lower(v) : v \in al[x].vals}]]

\* The writes of run(), lines 89-125, up to the exception that ends them.
\* The fuse regions are those of the Cortex-M maker: the two
\* _get_fuse_MEMORY and the two _get_fuse_SECTIONS are the same code.
mpu_write_script(unique, al, sel, fuses_periph) ==
    LET fuse_MEMORY == IF fuses_periph # None
                       THEN get_fuse_MEMORY(unique, fuses_periph)
                       ELSE [lines |-> <<>>, raised |-> "none"]
        memory == <<[chunk |-> "license"],
                    mpu_get_memory_symbols,
                    [chunk |-> "MEMORY",
                     lines |-> mpu_get_MEMORY_regions(unique, sel.main_ddr_region,
                                                      sel.main_sram_region)]>>
        sections == <<[chunk |-> "ENTRY"],
                      [chunk |-> "REGION_ALIAS", lines |-> region_aliases(al)],
                      [chunk |-> "program_SECTIONS",
                       ddr_name |-> lower(sel.main_ddr_region.name),
                       sram_name |-> lower(sel.main_sram_region.name)],
                      [chunk |-> "data_SECTIONS",
                       ddr_name |-> lower(sel.main_ddr_region.name)]>>
                    \o (IF fuses_periph # None
                        THEN <<[chunk |-> "fuse_SECTIONS",
                                lines |-> get_fuse_SECTIONS(unique, fuses_periph)]>>
                        ELSE <<>>)
                    \o <<[chunk |-> "end"]>>
    IN IF fuse_MEMORY.raised # "none"
       THEN [outfile |-> memory, raised |-> fuse_MEMORY.raised,
             error_msg |-> <<"Address space could not be found!">>]
       ELSE [outfile |-> memory
                         \o (IF fuses_periph # None
                             THEN <<[chunk |-> "fuse_MEMORY", lines |-> fuse_MEMORY.lines]>>
                             ELSE <<>>)
                         \o sections,
             raised |-> "none", error_msg |-> <<>>]

\* run(devinfo, outfile) of the MPU maker.
mpu_run(name, spaces, periphs) ==
    LET res == mpu_remove_overlapping_memory(remove_known_problematic_regions(spaces))
        unique == SortSpaces(res.spaces)
        sel == mpu_select_regions(unique, res.aliases)
        checked == mpu_check_regions(sel, name)
        written == mpu_write_script(unique, res.aliases, sel, find_fuses_periph(periphs))
    IN IF checked.raised # "none"
       THEN [unique_addr_spaces |-> unique, aliases |-> res.aliases, plan |-> sel,
             outfile |-> <<>>, raised |-> checked.raised, error_msg |-> checked.error_msg]
       ELSE [unique_addr_spaces |-> unique, aliases |-> res.aliases, plan |-> sel,
             outfile |-> written.outfile, raised |-> written.raised,
             error_msg |-> written.error_msg]

----------------------------------------------------------------------------
(* The stack and heap reservations of the scripts: what the SECTIONS       *)
(* commands _get_standard_data_SECTIONS writes compute when a program is   *)
(* linked with the script. A link gives its own values to the symbols      *)
(* under PROVIDE (--defsym) and has data bytes of .data, .tdata, .tbss and *)
(* .bss in the RAM region.                                                 *)

\* ALIGN(n) of the linker script language: x rounded up to a multiple of n.
ALIGN(x, n) == ((x + n - 1) \div n) * n

\* The first chunk of the script with the name.
RECURSIVE Chunk(_, _)
Chunk(file, chunk) ==
    IF file = <<>> THEN None
    ELSE IF Head(file).chunk = chunk THEN Head(file) ELSE Chunk(Tail(file), chunk)

\* ORIGIN(name) and LENGTH(name): the line of the MEMORY command.
MemoryLine(file, name) ==
    LET lines == Chunk(file, "MEMORY").lines
    IN lines[CHOOSE x \in DOMAIN lines : lines[x].name = name]

\* PROVIDE(symbol = default): the value the link gives, else the default.
Provided(file, given, symbol) ==
    IF symbol \in DOMAIN given THEN given[symbol]
    ELSE Chunk(file, "symbols").PROVIDE[symbol]

\* A slip of the assertion: a stack that starts where the heap ends is
\* refused.
stack_assert_strict(stack_limit, heap_limit) == stack_limit > heap_limit

\* ASSERT(__StackLimit >= __HeapLimit, ...) at the end of the SECTIONS.
stack_assert(stack_limit, heap_limit) == stack_limit >= heap_limit

\* cortexm_linker_script_maker._get_standard_data_SECTIONS, lines 514-562:
\* .bss ends 4-aligned, .heap follows it, .stack starts at
\* ORIGIN + LENGTH - __STACK_SIZE - __STACKSEAL_SIZE.
cortexm_link(file, given, data) ==
    LET ram == MemoryLine(file, Chunk(file, "data_SECTIONS").ram_name)
        STACK_SIZE == Provided(file, given, "STACK_SIZE")
        HEAP_SIZE == Provided(file, given, "HEAP_SIZE")
        STACKSEAL_SIZE == Chunk(file, "symbols").STACKSEAL_SIZE
        bss_end == ALIGN(ram.ORIGIN + data, 4)
        heap_base == ALIGN(bss_end, 8)
        HeapLimit == ALIGN(heap_base + HEAP_SIZE, 8)
        StackLimit == ALIGN(ram.ORIGIN + ram.LENGTH - STACK_SIZE - STACKSEAL_SIZE, 8)
        StackTop == ALIGN(StackLimit + STACK_SIZE, 8)
    IN [symbols |-> [ram |-> ram, STACK_SIZE |-> STACK_SIZE, HEAP_SIZE |-> HEAP_SIZE,
                     bss_end |-> bss_end,
                     HeapLimit |-> HeapLimit, StackLimit |-> StackLimit,
                     ranges |-> <<[name |-> "heap", first |-> heap_base, limit |-> HeapLimit],
                                  [name |-> "stack", first |-> StackLimit, limit |-> StackTop]>>],
        link_error |-> IF stack_assert(StackLimit, HeapLimit) THEN "none"
                       ELSE "RAM region overflowed with stack"]

\* The stacks of the processor modes, lines 568-591 of the MPU maker: each
\* starts where the one before ends and ends 8-aligned.
RECURSIVE mode_stacks(_, _, _, _)
mode_stacks(file, given, modes, dot) ==
    IF modes = <<>> THEN <<>>
    ELSE LET top == ALIGN(dot + Provided(file, given, Head(modes)), 8)
         IN <<[name |-> Head(modes), first |-> dot, limit |-> top]>>
            \o mode_stacks(file, given, Tail(modes), top)

\* The sum of the sizes of the stacks: __ALL_STACKS_SIZE.
RECURSIVE ALL_STACKS_SIZE(_, _, _)
ALL_STACKS_SIZE(file, given, stacks) ==
    IF stacks = <<>> THEN 0
    ELSE Provided(file, given, Head(stacks)) + ALL_STACKS_SIZE(file, given, Tail(stacks))

\* The stacks after the primary stack, in the order of the script.
ModeStacks ==
    <<"FIQ_STACK_SIZE", "IRQ_STACK_SIZE", "SVC_STACK_SIZE", "ABT_STACK_SIZE", "UND_STACK_SIZE">>

\* A slip of the start of .stack: the room of the primary stack only, as
\* in the script of the Cortex-M maker.
mpu_stack_start_primary_only(ram, STACK_SIZE, all_stacks) ==
    ram.ORIGIN + ram.LENGTH - STACK_SIZE

\* The address given to .stack, line 560.
mpu_stack_start(ram, STACK_SIZE, all_stacks) ==
    ram.ORIGIN + ram.LENGTH - all_stacks

\* arm_mpu_linker_script_maker._get_standard_data_SECTIONS, lines 536-596:
\* .stack starts at ORIGIN + LENGTH - __ALL_STACKS_SIZE.
mpu_link(file, given, data) ==
    LET ram == MemoryLine(file, Chunk(file, "data_SECTIONS").ddr_name)
        STACK_SIZE == Provided(file, given, "STACK_SIZE")
        HEAP_SIZE == Provided(file, given, "HEAP_SIZE")
        bss_end == ALIGN(ram.ORIGIN + data, 4)
        heap_base == ALIGN(bss_end, 8)
        HeapLimit == ALIGN(heap_base + HEAP_SIZE, 8)
        StackLimit == ALIGN(mpu_stack_start(ram, STACK_SIZE,
                                ALL_STACKS_SIZE(file, given, <<"STACK_SIZE">> \o ModeStacks)),
                            8)
        StackTop == ALIGN(StackLimit + STACK_SIZE, 8)
    IN [symbols |-> [ram |-> ram, STACK_SIZE |-> STACK_SIZE, HEAP_SIZE |-> HEAP_SIZE,
                     bss_end |-> bss_end,
                     HeapLimit |-> HeapLimit, StackLimit |-> StackLimit,
                     ranges |-> <<[name |-> "heap", first |-> heap_base, limit |-> HeapLimit],
                                  [name |-> "stack", first |-> StackLimit, limit |-> StackTop]>>
                                \o mode_stacks(file, given, ModeStacks, StackTop)],
        link_error |-> IF stack_assert(StackLimit, HeapLimit) THEN "none"
                       ELSE "The stacks are too big to fit into memory"]

----------------------------------------------------------------------------
(* The list objects of the resolution: which Python lists the calls of     *)
(* run() create and which they change in place. A list object is a         *)
(* reference into objects; a DeviceAddressSpace holds the reference of its *)
(* mem_regions.                                                            *)

\* A slip of 'mem_regions = new_regions': the new address space is given
\* the list of the address space it is made from.
new_regions_object_input(ref, fresh) == ref

\* DeviceAddressSpace(..., mem_regions = new_regions): the list the new
\* address space holds is the list the call has just built.
new_regions_object(ref, fresh) == fresh

\* The lists the loop 'for addr_space in address_spaces' builds, one per
\* address space, and the lists the new address spaces hold.
NewSpaces(objects_, refs, contents) ==
    [objects |-> objects_ \o contents,
     refs |-> [k \in 1..Len(refs) |-> new_regions_object(refs[k], Len(objects_) + k)]]

\* cortexm_linker_script_maker._remove_overlapping_memory on list objects.
cortexm_remove_overlapping_objects(objects_, refs) ==
    NewSpaces(objects_, refs,
              [k \in 1..Len(refs) |->
                  DropNames(objects_[refs[k]], cortexm_regions_to_remove(objects_[refs[k]]))])

\* for addr_space in unique_addr_spaces: addr_space.mem_regions.sort(...):
\* the lists of the address spaces are sorted in place.
sort_objects(objects_, refs) ==
    [r \in 1..Len(objects_) |->
        IF \E k \in 1..Len(refs) : refs[k] = r THEN SortByStart(objects_[r]) ELSE objects_[r]]

\* run() of the Cortex-M maker, lines 50-55, on list objects.
cortexm_run_objects(objects_, refs) ==
    LET res == cortexm_remove_overlapping_objects(objects_, refs)
    IN [objects |-> sort_objects(res.objects, res.refs), refs |-> res.refs]

\* The address spaces as values: only the regions matter to the resolvers.
SpacesOf(objects_, refs) ==
    [k \in 1..Len(refs) |-> [id |-> "", start_addr |-> 0, size |-> 0,
                             mem_regions |-> objects_[refs[k]]]]

\* arm_mpu_linker_script_maker._remove_known_problematic_regions on list objects.
remove_known_problematic_objects(objects_, refs) ==
    NewSpaces(objects_, refs, [k \in 1..Len(refs) |-> DropImemories(objects_[refs[k]])])

\* arm_mpu_linker_script_maker._remove_overlapping_memory on list objects.
mpu_remove_overlapping_objects(objects_, refs) ==
    LET new_spaces == mpu_remove_overlapping_memory(SpacesOf(objects_, refs)).spaces
    IN NewSpaces(objects_, refs, [k \in 1..Len(refs) |-> new_spaces[k].mem_regions])

\* run() of the MPU maker, lines 50-56, on list objects.
mpu_run_objects(objects_, refs) ==
    LET cleaned == remove_known_problematic_objects(objects_, refs)
        res == mpu_remove_overlapping_objects(cleaned.objects, cleaned.refs)
    IN [objects |-> sort_objects(res.objects, res.refs), refs |-> res.refs]

----------------------------------------------------------------------------
(* The devices and the runs of the linker layout planning. *)

\* Most memory regions of a device.
MaxPlanRegions == 3

\* The kinds of region of the model: name, type, page_size, external.
PlanKinds ==
    {<<"FLASH", "flash", 8, FALSE>>, <<"BFM", "flash", 8, FALSE>>,
     <<"QSPI", "flash", 0, TRUE>>, <<"HSRAM", "ram", 0, FALSE>>,
     <<"ITCM", "ram", 0, FALSE>>, <<"DTCM", "ram", 0, FALSE>>,
     <<"DDR_CS", "ram", 0, TRUE>>, <<"APB", "io", 0, FALSE>>}

\* The extents (start_addr, size) of the regions: a region, a larger one
\* that contains it and one of that size apart from both.
PlanExtents == {<<0, 1>>, <<0, 2>>, <<2, 2>>}

\* DeviceMemoryRegion(name, start_addr, size, type, page_size, external)
DeviceMemoryRegion(kind, extent) ==
    [name |-> kind[1], start_addr |-> extent[1], size |-> extent[2],
     type |-> kind[2], page_size |-> kind[3], external |-> kind[4]]

\* The lists of n regions with distinct names.
PlanRegionLists(n) ==
    {[x \in 1..n |-> DeviceMemoryRegion(kinds[x], extents[x])] :
        kinds \in {ks \in [1..n -> PlanKinds] : \A a, b \in 1..n : a # b => ks[a] # ks[b]},
        extents \in [1..n -> PlanExtents]}

InitPlan ==
    /\ pc = "input"
    /\ device_name = "ATSAME54P20A"
    /\ \E n \in 0..MaxPlanRegions :
          \E regions \in PlanRegionLists(n) :
              address_spaces = <<[id |-> "base", start_addr |-> SpaceStart, size |-> 4,
                                  mem_regions |-> regions]>>
    /\ peripherals = <<>>
    /\ plan = NoPlan
    /\ outfile = <<>>
    /\ error_msg = <<>>
    /\ fuse_decls = <<>>
    /\ LinkIdle
    /\ ObjectsInput
    /\ BatchIdle
    /\ ExtIdle
    /\ unique_addr_spaces = <<>>
    /\ aliases = <<>>
    /\ maker = "none"
    /\ group = NoGroup
    /\ group_def = NoGroupDef
    /\ field = NoField
    /\ field_macros = NoMacros
    /\ value = 0
    /\ field_value = 0
    /\ raised = "none"

\* cortexm_linker_script_maker.run(devinfo, outfile)
CortexM_plan ==
    /\ pc = "input"
    /\ \E res \in {cortexm_run(device_name, address_spaces, peripherals)} :
       \E obj \in {cortexm_run_objects(objects, input_refs)} :
          /\ objects' = obj.objects
          /\ unique_refs' = obj.refs
          /\ unique_addr_spaces' = res.unique_addr_spaces
          /\ plan' = res.plan
          /\ outfile' = res.outfile
          /\ raised' = res.raised
          /\ error_msg' = res.error_msg
    /\ aliases' = <<>>
    /\ maker' = "cortexm"
    /\ pc' = "planned"
    /\ UNCHANGED <<extVars, address_spaces, device_name, peripherals, fuseVars, linkVars, input_refs,
                   batchVars, layoutVars, fieldVars>>

\* arm_mpu_linker_script_maker.run(devinfo, outfile)
Mpu_plan ==
    /\ pc = "input"
    /\ \E res \in {mpu_run(device_name, address_spaces, peripherals)} :
       \E obj \in {mpu_run_objects(objects, input_refs)} :
          /\ objects' = obj.objects
          /\ unique_refs' = obj.refs
          /\ unique_addr_spaces' = res.unique_addr_spaces
          /\ aliases' = res.aliases
          /\ plan' = res.plan
          /\ outfile' = res.outfile
          /\ raised' = res.raised
          /\ error_msg' = res.error_msg
    /\ maker' = "mpu"
    /\ pc' = "planned"
    /\ UNCHANGED <<extVars, address_spaces, device_name, peripherals, fuseVars, linkVars, input_refs,
                   batchVars, layoutVars, fieldVars>>

NextPlan == CortexM_plan \/ Mpu_plan

SpecPlan == InitPlan /\ [][NextPlan]_vars

----------------------------------------------------------------------------
(* Linker layout planning: the vocabulary of the properties. *)

Planned == pc = "planned"

\* The regions of the address spaces, each with its absolute start address.
AbsRegions(spaces) ==
    UNION {{[spaces[k].mem_regions[x] EXCEPT !.start_addr = @ + spaces[k].start_addr] :
               x \in 1..Len(spaces[k].mem_regions)} : k \in 1..Len(spaces)}

\* The regions of the resolved memory map.
MapRegions == AbsRegions(unique_addr_spaces)

\* The regions of the resolved map of a type, external or not.
OfType(type, external) ==
    {r \in MapRegions : lower(r.type) = type /\ r.external = external}

\* Whether r is one of the largest regions of S.
Largest(r, S) == r \in S /\ \A o \in S : o.size <= r.size

\* The address spaces without the regions named name.
Without(spaces, name) ==
    [k \in 1..Len(spaces) |-> WithRegions(spaces[k], DropNames(spaces[k].mem_regions, {name}))]

----------------------------------------------------------------------------
----------------------------------------------------------------------------
(* C15 as stated: planning ends with a missing-region error naming the     *)
(* device if and only if the resolved map has no region of type RAM, and   *)
(* then nothing is written.                                                *)
C15_ErrorIffNoRam ==
    Planned =>
        /\ raised = "RuntimeError"
              <=> (OfType("ram", FALSE) \cup OfType("ram", TRUE) = {})
        /\ raised = "RuntimeError" =>
              (outfile = <<>> /\ error_msg[Len(error_msg)] = device_name)

\* Whether the MPU maker finds a DDR region: a region whose name contains
\* 'ddr', or the canonical region that a region named ddr_cs or ebi_mpddr
\* is an alias of.
DdrFound ==
    \/ \E r \in MapRegions : IsIn("ddr", lower(r.name))
    \/ \E x \in 1..Len(aliases) :
          /\ \E v \in aliases[x].vals : lower(v) \in {"ddr_cs", "ebi_mpddr", "ddr"}
          /\ \E r \in MapRegions : lower(r.name) = lower(aliases[x].key)

\* Whether the MPU maker finds an SRAM region: a region whose name
\* contains 'sram' or 'iram', or the canonical region that a region named
\* sram0, iram or sram is an alias of.
SramFound ==
    \/ \E r \in MapRegions : IsIn("sram", lower(r.name)) \/ IsIn("iram", lower(r.name))
    \/ \E x \in 1..Len(aliases) :
          /\ \E v \in aliases[x].vals : lower(v) \in {"sram0", "iram", "sram"}
          /\ \E r \in MapRegions : lower(r.name) = lower(aliases[x].key)

(* C15: the Cortex-M maker ends with a RuntimeError naming the device if   *)
(* and only if the resolved map has no non-external region of type RAM;    *)
(* the MPU maker if and only if it finds no DDR region or no SRAM region   *)
(* by name. The error is raised before anything is written.                *)
C15_ErrorIffNoMainRegion ==
    Planned =>
        /\ maker = "cortexm" => (raised = "RuntimeError" <=> OfType("ram", FALSE) = {})
        /\ maker = "mpu" => (raised = "RuntimeError" <=> (~DdrFound \/ ~SramFound))
        /\ raised = "RuntimeError" =>
              (outfile = <<>> /\ error_msg[Len(error_msg)] = device_name)
        /\ raised = "none" => (outfile # <<>> /\ outfile[Len(outfile)].chunk = "end")

\* A device with flash whose only RAM is external: the Cortex-M maker
\* raises although the map has a region of type RAM.
C15_Witness ==
    /\ Planned
    /\ maker = "cortexm"
    /\ raised = "RuntimeError"
    /\ OfType("flash", FALSE) # {}
    /\ OfType("ram", TRUE) # {}
    /\ outfile = <<>>

----------------------------------------------------------------------------
(* C16: when the Cortex-M maker selects a boot flash region (a name with   *)
(* 'bfm'), an ITCM or a DTCM region, the main flash (respectively main     *)
(* RAM) region is another region, the one that is selected when the        *)
(* optional region is not in the map.                                      *)
C16_OptionalNeverCanonical ==
    (Planned /\ maker = "cortexm" /\ raised = "none") =>
        /\ plan.main_bootflash_region # None =>
              /\ plan.main_flash_region # plan.main_bootflash_region
              /\ plan.main_flash_region =
                    select_main_flash(Without(unique_addr_spaces,
                                              plan.main_bootflash_region.name))
        /\ \A tcm \in {plan.itcm_region, plan.dtcm_region} :
              tcm # None =>
                  /\ plan.main_ram_region # tcm
                  /\ plan.main_ram_region =
                        find_biggest_memory_region(Without(unique_addr_spaces, tcm.name),
                                                   "ram", FALSE, "")

----------------------------------------------------------------------------
(* The device fuses: the devices and the runs of the two makers that place *)
(* them, the linker script maker and the device header maker.              *)

\* Most registers of the fuse register group.
MaxFuseMembers == 2

\* The names of the fuse registers, by position in the group.
FuseMemberNames == <<"BOOTCFG", "USERCFG", "SEQNUM">>

\* The offsets of the fuse registers in their group.
FuseOffsets == {0, 2, 4, 16}

\* The shapes (size, count) of the fuse registers: single registers of
\* every width and arrays, count 0 being a register that is not an array.
FuseShapes == {<<1, 0>>, <<2, 0>>, <<4, 0>>, <<8, 0>>, <<2, 2>>, <<4, 4>>, <<8, 2>>}

\* The register groups of at most n registers.
FuseMemberLists(n) ==
    UNION {{[x \in 1..k |-> [name |-> FuseMemberNames[x], offset |-> offs[x],
                             size |-> shapes[x][1], count |-> shapes[x][2]]] :
               offs \in [1..k -> FuseOffsets], shapes \in [1..k -> FuseShapes]} :
           k \in 0..n}

\* The references of the instance to the register group: to the group in
\* the fuse address space, at an offset, to a group the peripheral does
\* not have and to an address space the device does not have.
FuseGroupRefs ==
    {[instance_name |-> "FUSES", module_name |-> "FUSES", addr_space |-> "fuses", offset |-> 0],
     [instance_name |-> "FUSES", module_name |-> "FUSES", addr_space |-> "fuses", offset |-> 16],
     [instance_name |-> "FUSES", module_name |-> "USER_PAGE", addr_space |-> "fuses", offset |-> 0],
     [instance_name |-> "FUSES", module_name |-> "FUSES", addr_space |-> "APB", offset |-> 0]}

\* The address spaces of the device: flash and RAM in the base space, with
\* or without the user page the fuses live in, and the fuse space at
\* 0x00800000.
FuseAddressSpaces(with_user_page) ==
    <<[id |-> "base", start_addr |-> 0, size |-> 1073741824,
       mem_regions |->
           <<[name |-> "FLASH", start_addr |-> 0, size |-> 262144,
              type |-> "flash", page_size |-> 512, external |-> FALSE]>>
           \o (IF with_user_page
               THEN <<[name |-> "USER_PAGE", start_addr |-> 8388608, size |-> 512,
                       type |-> "user_page", page_size |-> 512, external |-> FALSE]>>
               ELSE <<>>)
           \o <<[name |-> "HSRAM", start_addr |-> 536870912, size |-> 32768,
                 type |-> "ram", page_size |-> 0, external |-> FALSE]>>],
      [id |-> "fuses", start_addr |-> 8388608, size |-> 512, mem_regions |-> <<>>]>>

InitFuses ==
    /\ pc = "input"
    /\ device_name = "ATSAME54P20A"
    /\ \E with_user_page \in BOOLEAN : address_spaces = FuseAddressSpaces(with_user_page)
    /\ \E periph_name \in {"FUSES", "APB"} :
       \E ref \in FuseGroupRefs :
       \E members \in FuseMemberLists(MaxFuseMembers) :
          peripherals = <<[name |-> periph_name,
                           instances |-> <<[name |-> "FUSES", reg_group_refs |-> <<ref>>]>>,
                           reg_groups |-> <<[name |-> "FUSES", members |-> members]>>]>>
    /\ plan = NoPlan
    /\ outfile = <<>>
    /\ error_msg = <<>>
    /\ fuse_decls = <<>>
    /\ LinkIdle
    /\ ObjectsInput
    /\ BatchIdle
    /\ ExtIdle
    /\ unique_addr_spaces = <<>>
    /\ aliases = <<>>
    /\ maker = "none"
    /\ group = NoGroup
    /\ group_def = NoGroupDef
    /\ field = NoField
    /\ field_macros = NoMacros
    /\ value = 0
    /\ field_value = 0
    /\ raised = "none"

\* arm_c_device_header_maker.run(devinfo, outfile, periph_prefix,
\* fuse_prefix), lines 85-104: the declarations of the device fuses. The
\* header is made of the device whose linker script was written.
DeviceHeader_run ==
    /\ pc = "planned"
    /\ raised = "none"
    /\ \E res \in {IF find_fuses_periph(peripherals) # None
                   THEN get_device_fuse_declarations(find_fuses_periph(peripherals),
                                                     address_spaces)
                   ELSE [decls |-> <<>>, raised |-> "none"]} :
          /\ fuse_decls' = res.decls
          /\ raised' = res.raised
    /\ pc' = "declared"
    /\ UNCHANGED <<extVars, memVars, planVars, linkVars, objVars, batchVars, layoutVars, fieldVars>>

NextFuses == CortexM_plan \/ DeviceHeader_run

SpecFuses == InitFuses /\ [][NextFuses]_vars

----------------------------------------------------------------------------
(* The device fuses: the vocabulary of the properties. *)

Declared == pc = "declared" /\ raised = "none"

\* The lines of the chunks of the script with the given name, in order.
RECURSIVE ChunkLines(_, _)
ChunkLines(file, chunk) ==
    IF file = <<>> THEN <<>>
    ELSE (IF Head(file).chunk = chunk THEN Head(file).lines ELSE <<>>)
         \o ChunkLines(Tail(file), chunk)

\* The fixed-address regions of the fuses and the general memory map.
FuseLines == ChunkLines(outfile, "fuse_MEMORY")
MapLines == ChunkLines(outfile, "MEMORY")

\* The reference and the registers the fuse regions are made of.
TheFuseRef == peripherals[1].instances[1].reg_group_refs[1]
TheFuseMembers == peripherals[1].reg_groups[1].members

\* The address of a fuse element by its name <<instance, register, i>>:
\* start of the address space + offset of the instance's reference
\* + offset of the register + index * size of the register.
FuseElementAddress(name) ==
    LET member == CHOOSE m \in {TheFuseMembers[x] : x \in DOMAIN TheFuseMembers} :
                      lower(m.name) = name[2]
        index == IF name[3] < 0 THEN 0 ELSE name[3]
    IN find_start_of_address_space(address_spaces, TheFuseRef.addr_space)
       + TheFuseRef.offset + member.offset + (index * member.size)

\* Two ranges [ORIGIN, ORIGIN + LENGTH) share an address.
Overlap(a, b) ==
    a.ORIGIN < b.ORIGIN + b.LENGTH /\ b.ORIGIN < a.ORIGIN + a.LENGTH

\* The bytes a register takes in its group, all its elements included.
RegisterBytes(member) ==
    [ORIGIN |-> member.offset,
     LENGTH |-> member.size * (IF member.count > 0 THEN member.count ELSE 1)]

\* No two registers of the fuse group share a byte.
RegistersApart ==
    \A x, y \in DOMAIN TheFuseMembers :
        x # y => ~Overlap(RegisterBytes(TheFuseMembers[x]), RegisterBytes(TheFuseMembers[y]))

----------------------------------------------------------------------------
(* C12: the region of a fuse element in the linker script starts at the    *)
(* start of the address space + the instance's offset + the register's     *)
(* offset + index * element size, the element size being the byte size of  *)
(* the register, and the <variable>_BASE macro of the device header for    *)
(* the same element is that address; a register with count 4 and size 4 at *)
(* offset 0x10 of the space at 0x00800000 has its elements at 0x00800010,  *)
(* 0x00800014, 0x00800018 and 0x0080001C.                                  *)
C12_FuseOrigin ==
    Declared =>
        \A x \in DOMAIN FuseLines :
            /\ FuseLines[x].ORIGIN = FuseElementAddress(FuseLines[x].name)
            /\ \A y \in DOMAIN fuse_decls :
                  fuse_decls[y].section = FuseLines[x].name =>
                      fuse_decls[y].BASE = FuseLines[x].ORIGIN

\* The part of C12 about arrays of 4-byte registers, where both makers
\* step by 4 bytes.
C12_FuseOriginWords ==
    (Declared /\ \A x \in DOMAIN TheFuseMembers :
                     TheFuseMembers[x].count > 0 => TheFuseMembers[x].size = 4) =>
        \A x \in DOMAIN FuseLines :
            /\ FuseLines[x].ORIGIN = FuseElementAddress(FuseLines[x].name)
            /\ \A y \in DOMAIN fuse_decls :
                  fuse_decls[y].section = FuseLines[x].name =>
                      fuse_decls[y].BASE = FuseLines[x].ORIGIN

\* The array of count 4 and size 4 at offset 0x10 of the space at 0x00800000.
C12_ScenarioD ==
    /\ Declared
    /\ [x \in DOMAIN FuseLines |-> FuseLines[x].ORIGIN]
          = <<8388624, 8388628, 8388632, 8388636>>
    /\ [y \in DOMAIN fuse_decls |-> fuse_decls[y].BASE]
          = <<8388624, 8388628, 8388632, 8388636>>

----------------------------------------------------------------------------
(* C13: for registers of size 1, 2, 4 and 8 the fuse regions of the linker *)
(* script do not overlap each other and do not overlap a region of the     *)
(* general memory map, the registers of the group being apart.             *)
C13_FuseRegionsDisjoint ==
    (Declared /\ RegistersApart) =>
        /\ \A x, y \in DOMAIN FuseLines :
              x # y => ~Overlap(FuseLines[x], FuseLines[y])
        /\ \A x \in DOMAIN FuseLines :
              \A y \in DOMAIN MapLines : ~Overlap(FuseLines[x], MapLines[y])

\* The fuse regions of registers that do not overlap each other overlap:
\* two registers of 2 bytes at offsets 0 and 2.
C13_NarrowRegistersOverlap ==
    /\ Declared
    /\ Len(TheFuseMembers) = 2
    /\ \A x \in 1..2 : TheFuseMembers[x].size = 2 /\ TheFuseMembers[x].count = 0
    /\ TheFuseMembers[1].offset = 0 /\ TheFuseMembers[2].offset = 2
    /\ Len(FuseLines) = 2
    /\ Overlap(FuseLines[1], FuseLines[2])

----------------------------------------------------------------------------
(* Links with the scripts: the devices, the sizes a link configures and    *)
(* the runs.                                                               *)

\* The sizes of the RAM regions of the devices.
LinkRamSizes == {32768, 64, 60}

\* The sizes a link gives to the primary stack and to the heap.
LinkSizes == {0, 4, 8, 16, 1024, 3072, 32768}

\* The size a link gives to the stack of a processor mode, if it gives one.
LinkModeSizes == {12}

\* The bytes a link has in the RAM region below the heap.
LinkData == {0, 4, 8, 28672}

\* The values a link gives to symbols under PROVIDE: any of the symbols,
\* the others keeping the default of the script.
Defsyms(stacks) ==
    LET all == [{"STACK_SIZE", "HEAP_SIZE"} -> LinkSizes]
        modes == [{ModeStacks[x] : x \in DOMAIN ModeStacks} \cap stacks -> LinkModeSizes]
    IN UNION {{[sym \in D |-> IF sym \in DOMAIN a THEN a[sym] ELSE m[sym]] :
                  a \in all, m \in modes} :
              D \in SUBSET ({"STACK_SIZE", "HEAP_SIZE"} \cup stacks)}

\* A device with internal flash, internal RAM and external DDR memory.
InitLink ==
    /\ pc = "input"
    /\ device_name = "SAMA5D27"
    /\ \E ram_size \in LinkRamSizes :
          address_spaces =
              <<[id |-> "base", start_addr |-> 0, size |-> 2147483647,
                 mem_regions |->
                     <<[name |-> "FLASH", start_addr |-> 0, size |-> 262144,
                        type |-> "flash", page_size |-> 512, external |-> FALSE],
                       [name |-> "HSRAM", start_addr |-> 536870912, size |-> ram_size,
                        type |-> "ram", page_size |-> 0, external |-> FALSE],
                       [name |-> "DDR_CS", start_addr |-> 1073741824, size |-> ram_size,
                        type |-> "ram", page_size |-> 0, external |-> TRUE]>>]>>
    /\ peripherals = <<>>
    /\ plan = NoPlan
    /\ outfile = <<>>
    /\ error_msg = <<>>
    /\ fuse_decls = <<>>
    /\ LinkIdle
    /\ ObjectsInput
    /\ BatchIdle
    /\ ExtIdle
    /\ unique_addr_spaces = <<>>
    /\ aliases = <<>>
    /\ maker = "none"
    /\ group = NoGroup
    /\ group_def = NoGroupDef
    /\ field = NoField
    /\ field_macros = NoMacros
    /\ value = 0
    /\ field_value = 0
    /\ raised = "none"

\* A link of a program with the script of the Cortex-M maker.
CortexM_link ==
    /\ pc = "planned"
    /\ maker = "cortexm"
    /\ raised = "none"
    /\ \E given \in Defsyms({}) :
       \E data \in LinkData :
       \E res \in {cortexm_link(outfile, given, data)} :
          /\ defsym' = [given |-> given, data |-> data]
          /\ symbols' = res.symbols
          /\ link_error' = res.link_error
    /\ pc' = "linked"
    /\ UNCHANGED <<extVars, memVars, planVars, fuseVars, objVars, batchVars, layoutVars, fieldVars, raised>>

\* A link of a program with the script of the MPU maker.
Mpu_link ==
    /\ pc = "planned"
    /\ maker = "mpu"
    /\ raised = "none"
    /\ \E given \in Defsyms({ModeStacks[x] : x \in DOMAIN ModeStacks}) :
       \E data \in LinkData :
       \E res \in {mpu_link(outfile, given, data)} :
          /\ defsym' = [given |-> given, data |-> data]
          /\ symbols' = res.symbols
          /\ link_error' = res.link_error
    /\ pc' = "linked"
    /\ UNCHANGED <<extVars, memVars, planVars, fuseVars, objVars, batchVars, layoutVars, fieldVars, raised>>

NextLink == CortexM_plan \/ Mpu_plan \/ CortexM_link \/ Mpu_link

SpecLink == InitLink /\ [][NextLink]_vars

----------------------------------------------------------------------------
(* Links with the scripts: the vocabulary of the properties. *)

Linked == pc = "linked"

\* The RAM region the script reserves the heap and the stacks in.
LinkRam == symbols.ram

\* The sum of the sizes configured for the heap and the stacks.
RECURSIVE SumOfSizes(_)
SumOfSizes(names) ==
    IF names = <<>> THEN 0
    ELSE Provided(outfile, defsym.given, Head(names)) + SumOfSizes(Tail(names))

ConfiguredSizes ==
    IF maker = "mpu" THEN <<"HEAP_SIZE", "STACK_SIZE">> \o ModeStacks
    ELSE <<"HEAP_SIZE", "STACK_SIZE">>

\* The configured sizes are multiples of 8, and so are the bounds of the RAM.
SizesAligned ==
    /\ \A x \in DOMAIN ConfiguredSizes :
          Provided(outfile, defsym.given, ConfiguredSizes[x]) % 8 = 0
    /\ LinkRam.ORIGIN % 8 = 0
    /\ LinkRam.LENGTH % 8 = 0

\* The reservations fit: the data of the program, the heap and the stacks
\* together are not more than the RAM region.
ReservationsFit ==
    ALIGN(defsym.data, 8) + SumOfSizes(ConfiguredSizes) <= LinkRam.LENGTH

----------------------------------------------------------------------------
C17_ScenarioEFails ==
    /\ Linked
    /\ maker = "cortexm"
    /\ LinkRam.LENGTH = 32768
    /\ defsym.data = 0
    /\ symbols.STACK_SIZE = 1024 /\ symbols.HEAP_SIZE = 32768
    /\ link_error = "RAM region overflowed with stack"
    /\ raised = "none"

----------------------------------------------------------------------------
(* C18: the reserved RAM ranges (heap, primary stack and, in the script of *)
(* the MPU maker, the FIQ, IRQ, SVC, ABT and UND stacks, in that order,    *)
(* every boundary aligned up to 8 bytes) never overlap one another and all *)
(* lie inside the RAM region [ORIGIN, ORIGIN + LENGTH), for every choice   *)
(* of sizes whose sum is not more than the size of the RAM region; the     *)
(* program has no data and the size of the region is a multiple of 8.      *)
C18_RangesInsideRam ==
    (Linked /\ defsym.data = 0 /\ LinkRam.LENGTH % 8 = 0
            /\ SumOfSizes(ConfiguredSizes) <= LinkRam.LENGTH) =>
        /\ \A x, y \in DOMAIN symbols.ranges :
              x < y => symbols.ranges[x].limit <= symbols.ranges[y].first
        /\ \A x \in DOMAIN symbols.ranges :
              /\ LinkRam.ORIGIN <= symbols.ranges[x].first
              /\ symbols.ranges[x].first <= symbols.ranges[x].limit
              /\ symbols.ranges[x].limit <= LinkRam.ORIGIN + LinkRam.LENGTH

(* C18, as the code has it: in a link whose assertion holds the reserved   *)
(* ranges follow one another in the order heap, primary stack, FIQ, IRQ,   *)
(* SVC, ABT, UND without overlapping and start at or above the origin of   *)
(* the RAM region; they end inside the region when the sizes and the       *)
(* bounds of the region are multiples of 8, and then the last one ends at  *)
(* the end of the region.                                                  *)
C18_RangesOfPassingLink ==
    (Linked /\ link_error = "none") =>
        /\ \A x, y \in DOMAIN symbols.ranges :
              x < y => symbols.ranges[x].limit <= symbols.ranges[y].first
        /\ \A x \in DOMAIN symbols.ranges :
              /\ LinkRam.ORIGIN <= symbols.ranges[x].first
              /\ symbols.ranges[x].first <= symbols.ranges[x].limit
        /\ SizesAligned =>
              symbols.ranges[Len(symbols.ranges)].limit = LinkRam.ORIGIN + LinkRam.LENGTH

\* A link with the script of the MPU maker, its default sizes and data
\* below the heap: seven ranges, the last one ending with the RAM region.
C18_Witness ==
    /\ Linked
    /\ maker = "mpu"
    /\ link_error = "none"
    /\ defsym = [given |-> << >>, data |-> 8]
    /\ SizesAligned
    /\ Len(symbols.ranges) = 7
    /\ symbols.ranges[7].limit = LinkRam.ORIGIN + LinkRam.LENGTH

----------------------------------------------------------------------------
(* The list objects of the resolution: the vocabulary of the properties. *)

\* The regions a linker script maker has selected.
PlanRegions == {plan[f] : f \in DOMAIN plan} \ {None}

\* The copy the selection returns of a region of an address space: the
\* region with its absolute start address.
LabelledCopy(addr_space, region) ==
    [region EXCEPT !.start_addr = addr_space.start_addr + region.start_addr]

----------------------------------------------------------------------------
(* C20: resolution and selection are pure. After run() the list of regions *)
(* of every input address space is the list it was, content and order; the *)
(* resolved address spaces hold lists of their own, whose content is the    *)
(* resolved map; every selected region is a copy, with its absolute start  *)
(* address, of a region that is still in the resolved map.                 *)
C20_ResolutionIsPure ==
    Planned =>
        /\ \A k \in DOMAIN input_refs :
              objects[input_refs[k]] = address_spaces[k].mem_regions
        /\ \A k \in DOMAIN unique_refs :
              /\ \A j \in DOMAIN input_refs : unique_refs[k] # input_refs[j]
              /\ objects[unique_refs[k]] = unique_addr_spaces[k].mem_regions
        /\ \A r \in PlanRegions :
              \E k \in DOMAIN unique_refs :
                  \E x \in DOMAIN objects[unique_refs[k]] :
                      r = LabelledCopy(unique_addr_spaces[k], objects[unique_refs[k]][x])

\* A run on a list that is not sorted and loses a region, with a main
\* flash region selected.
C20_Witness ==
    /\ Planned
    /\ maker = "cortexm"
    /\ \E k \in DOMAIN input_refs :
          /\ address_spaces[k].mem_regions # SortByStart(address_spaces[k].mem_regions)
          /\ Len(objects[unique_refs[k]]) < Len(objects[input_refs[k]])
          /\ objects[unique_refs[k]] # <<>>
    /\ plan.main_flash_region # None

----------------------------------------------------------------------------
(* The batch: __main__ of main.py makes the files of every device of the   *)
(* packs directory in a loop and then the files shared by the devices. A   *)
(* file is [path, text]; the text of a linker script is what run() wrote,  *)
(* the text of another file is abstracted to whether its maker wrote it.   *)

\* Most devices of a batch.
MaxBatch == 3

\* The names of the devices, by position in the batch.
BatchNames == <<"ATSAME54P20A", "PIC32CZ8110CA80208", "ATSAMD21G18A">>

\* The kinds of device: its CPU and the regions of its memory map. The
\* second has no RAM and the last is not a Cortex-M device.
BatchKinds ==
    {[cpu |-> "cortex-m4", regions |-> <<"FLASH", "HSRAM">>],
     [cpu |-> "cortex-m7", regions |-> <<"FLASH">>],
     [cpu |-> "cortex-m0plus", regions |-> <<"HSRAM">>],
     [cpu |-> "mips32r5", regions |-> <<"FLASH", "HSRAM">>]}

\* atdf.get_all_device_info() for the device at position x of kind kind.
BatchDevice(x, kind) ==
    [name |-> BatchNames[x],
     cpu |-> kind.cpu,
     family |-> "SAM",
     peripherals |-> <<>>,
     address_spaces |->
         <<[id |-> "base", start_addr |-> 0, size |-> 4,
            mem_regions |->
                [y \in 1..Len(kind.regions) |->
                    DeviceMemoryRegion(CHOOSE k \in PlanKinds : k[1] = kind.regions[y],
                                       <<2 * (y - 1), 2>>)]]>>]

\* atdf.get_device_cpu().startswith('cortex-m')
IsCortexM(cpu) == cpu \in {"cortex-m0plus", "cortex-m4", "cortex-m7"}

\* A call of cortexm_config_file_maker.run(devinfo, outfile, default_ld_path,
\* extra_macros) with the given arguments: Python raises TypeError when a
\* required positional argument is missing.
cortexm_config_file_maker_call(args) ==
    IF Len(args) # 4 THEN "TypeError" ELSE "none"

\* The text of a file whose maker has returned.
Written == <<[chunk |-> "written"]>>

\* device_families[family].append(devinfo.name), or a new entry.
AddToFamily(families, family, name) ==
    IF \E x \in DOMAIN families : families[x].family = family
    THEN [x \in DOMAIN families |->
             IF families[x].family = family
             THEN [families[x] EXCEPT !.names = Append(@, name)]
             ELSE families[x]]
    ELSE Append(families, [family |-> family, names |-> <<name>>])

InitBatch ==
    /\ pc = "batch"
    /\ \E n \in 0..MaxBatch :
          \E kinds \in [1..n -> BatchKinds] :
              batch = [x \in 1..n |-> BatchDevice(x, kinds[x])]
    /\ device_index = 1
    /\ files = {}
    /\ device_families = <<>>
    /\ device_name = ""
    /\ address_spaces = <<>>
    /\ peripherals = <<>>
    /\ plan = NoPlan
    /\ outfile = <<>>
    /\ error_msg = <<>>
    /\ fuse_decls = <<>>
    /\ LinkIdle
    /\ ObjIdle
    /\ ExtIdle
    /\ unique_addr_spaces = <<>>
    /\ aliases = <<>>
    /\ maker = "none"
    /\ group = NoGroup
    /\ group_def = NoGroupDef
    /\ field = NoField
    /\ field_macros = NoMacros
    /\ value = 0
    /\ field_value = 0
    /\ raised = "none"

\* One pass of the loop 'for p in get_atdf_paths_from_dir(packs_dir)',
\* lines 235-332. No call of the loop is in a try statement: an exception
\* of a maker leaves the loop and ends the program. A file is created when
\* it is opened, before its maker runs.
Main_device ==
    /\ pc = "batch"
    /\ device_index <= Len(batch)
    /\ LET devinfo == batch[device_index]
           dir == lower(devinfo.name)
       IN IF ~IsCortexM(devinfo.cpu)
          THEN /\ device_index' = device_index + 1
               /\ UNCHANGED <<pc, files, device_families, raised, error_msg>>
          ELSE \E ld \in {cortexm_run(devinfo.name, devinfo.address_spaces,
                                      devinfo.peripherals)} :
               \E cfg \in {cortexm_config_file_maker_call(<<"devinfo", "cfg",
                                                            "default_ld_loc">>)} :
                  IF ld.raised # "none"
                  THEN /\ files' = files \cup {[path |-> <<dir, "default.ld">>,
                                                text |-> ld.outfile]}
                       /\ raised' = ld.raised
                       /\ error_msg' = ld.error_msg
                       /\ pc' = "exited"
                       /\ UNCHANGED <<device_index, device_families>>
                  ELSE IF cfg # "none"
                       THEN /\ files' = files \cup
                                   {[path |-> <<dir, "default.ld">>, text |-> ld.outfile],
                                    [path |-> <<"include", dir, ".h">>, text |-> Written],
                                    [path |-> <<dir, "vectors.c">>, text |-> Written],
                                    [path |-> <<"config", dir, ".cfg">>, text |-> <<>>]}
                            /\ raised' = cfg
                            /\ error_msg' = <<"run() missing 1 required positional argument">>
                            /\ pc' = "exited"
                            /\ UNCHANGED <<device_index, device_families>>
                       ELSE /\ files' = files \cup
                                   {[path |-> <<dir, "default.ld">>, text |-> ld.outfile],
                                    [path |-> <<"include", dir, ".h">>, text |-> Written],
                                    [path |-> <<dir, "vectors.c">>, text |-> Written],
                                    [path |-> <<"config", dir, ".cfg">>, text |-> Written]}
                            /\ device_families' = AddToFamily(device_families,
                                                              devinfo.family, devinfo.name)
                            /\ device_index' = device_index + 1
                            /\ UNCHANGED <<pc, raised, error_msg>>
    /\ UNCHANGED <<extVars, batch, memVars, device_name, peripherals, plan, outfile, fuseVars,
                   linkVars, objVars, layoutVars, fieldVars>>

\* After the loop, lines 334-370: the header of all the devices and the
\* premade files, then exit(0).
Main_finish ==
    /\ pc = "batch"
    /\ device_index > Len(batch)
    /\ files' = files \cup {[path |-> <<"include", "which_pic32", ".h">>, text |-> Written],
                            [path |-> <<"premade">>, text |-> Written]}
    /\ pc' = "done"
    /\ UNCHANGED <<extVars, batch, device_index, device_families, raised, error_msg, memVars,
                   device_name, peripherals, plan, outfile, fuseVars, linkVars, objVars,
                   layoutVars, fieldVars>>

NextBatch == Main_device \/ Main_finish

SpecBatch == InitBatch /\ [][NextBatch]_vars

----------------------------------------------------------------------------
(* The batch: the vocabulary of the properties. *)

\* The program has ended, by exit(0) or by an exception.
BatchEnded == pc \in {"done", "exited"}

\* The device whose processing raised the exception, 0 if there is none.
FailedDevice == IF pc = "exited" THEN device_index ELSE 0

\* The linker script of the device is in the output directory, complete.
HasLinkerScript(devinfo) ==
    \E f \in files :
        /\ f.path = <<lower(devinfo.name), "default.ld">>
        /\ f.text # <<>>
        /\ f.text[Len(f.text)].chunk = "end"

----------------------------------------------------------------------------
(* C19: a fatal error raised while a device is processed aborts only that  *)
(* device: when the program has ended, every other Cortex-M device of the  *)
(* batch has been processed and its linker script is written.              *)
C19_OtherDevicesProcessed ==
    BatchEnded =>
        \A x \in DOMAIN batch :
            (IsCortexM(batch[x].cpu) /\ x # FailedDevice) => HasLinkerScript(batch[x])

\* A batch whose first device has no RAM region: the program ends with its
\* RuntimeError and the second device, which has flash and RAM, has no file.
C19_BatchAborted ==
    /\ pc = "exited"
    /\ raised = "RuntimeError"
    /\ device_index = 1
    /\ Len(batch) >= 2
    /\ batch[2].cpu = "cortex-m4"
    /\ ~HasLinkerScript(batch[2])
    /\ \A f \in files : f.path[1] = lower(batch[1].name) /\ f.text = <<>>

----------------------------------------------------------------------------
(* The devices of the selection by name of the MPU maker.                  *)

\* Most memory regions of such a device.
MaxNamedRegions == 3

\* The names of the regions: the names run() looks for, names that contain
\* 'ddr', 'sram' or 'iram', and a name that contains none of them.
SelectionNames ==
    {"DDR_CS", "EBI_MPDDR", "DDR_AES_CS", "SRAM0", "IRAM", "SRAM1", "IRAM1", "QSPI"}

\* The extents (start_addr, size) of the regions: two regions of the same
\* extent are duplicates, of which one becomes an alias of the other.
SelectionExtents == {<<0, 2>>, <<2, 2>>}

\* The lists of n regions with distinct names.
NamedRegionLists(n) ==
    {[x \in 1..n |-> DeviceMemoryRegion(<<names[x], "ram", 0, FALSE>>, extents[x])] :
        names \in {ns \in [1..n -> SelectionNames] : \A a, b \in 1..n : a # b => ns[a] # ns[b]},
        extents \in [1..n -> SelectionExtents]}

InitNames ==
    /\ pc = "input"
    /\ device_name = "SAMA5D27"
    /\ \E n \in 0..MaxNamedRegions :
          \E regions \in NamedRegionLists(n) :
              address_spaces = <<[id |-> "base", start_addr |-> SpaceStart, size |-> 4,
                                  mem_regions |-> regions]>>
    /\ peripherals = <<>>
    /\ plan = NoPlan
    /\ outfile = <<>>
    /\ error_msg = <<>>
    /\ fuse_decls = <<>>
    /\ LinkIdle
    /\ ObjectsInput
    /\ BatchIdle
    /\ ExtIdle
    /\ unique_addr_spaces = <<>>
    /\ aliases = <<>>
    /\ maker = "none"
    /\ group = NoGroup
    /\ group_def = NoGroupDef
    /\ field = NoField
    /\ field_macros = NoMacros
    /\ value = 0
    /\ field_value = 0
    /\ raised = "none"

NextNames == Mpu_plan

SpecNames == InitNames /\ [][NextNames]_vars

----------------------------------------------------------------------------
(* Selection by name: the vocabulary of the properties. *)

\* The regions of the resolved map in map order (the devices of this part
\* have one address space).
NamedMap == unique_addr_spaces[1].mem_regions

\* The least number of a non-empty set of numbers.
Least(S) == CHOOSE x \in S : \A y \in S : x <= y

\* The places in the map of the regions named id, and of those whose name
\* contains part.
ExactIn(id) == {x \in DOMAIN NamedMap : lower(NamedMap[x].name) = id}
ContainsIn(part) == {x \in DOMAIN NamedMap : IsIn(part, lower(NamedMap[x].name))}

\* The name of the region of a selection, None if there is none.
NameOf(region) == IF region = None THEN None ELSE [name |-> region.name]

\* The name of the first region of the map at one of the places S.
FirstAt(S) == [name |-> NamedMap[Least(S)].name]

\* The region a name stands for: the region that kept the place of a removed
\* duplicate of that name, otherwise the name itself.
StandsFor(id) ==
    LET E == {x \in DOMAIN aliases : \E v \in aliases[x].vals : lower(v) = id}
    IN IF E = {} THEN id ELSE lower(aliases[Least(E)].key)

\* The choice the claim describes: the first known id that names a region,
\* otherwise the first region in map order that contains a fallback.
StatedChoice(ids, parts) ==
    LET known == {k \in DOMAIN ids : ExactIn(ids[k]) # {}}
        fallback == UNION {ContainsIn(part) : part \in parts}
    IN IF known # {} THEN FirstAt(ExactIn(ids[Least(known)]))
       ELSE IF fallback # {} THEN FirstAt(fallback)
       ELSE None

\* The choice through the alias table: the first known id that names a
\* region or a removed duplicate of a region, otherwise the first region in
\* map order that contains the first fallback any region contains.
AliasedChoice(ids, parts) ==
    LET known == {k \in DOMAIN ids : ExactIn(StandsFor(ids[k])) # {}}
        fallback == {k \in DOMAIN parts : ContainsIn(StandsFor(parts[k])) # {}}
    IN IF known # {} THEN FirstAt(ExactIn(StandsFor(ids[Least(known)])))
       ELSE IF fallback # {} THEN FirstAt(ContainsIn(StandsFor(parts[Least(fallback)])))
       ELSE None

NamesPlanned == pc = "planned" /\ maker = "mpu"

----------------------------------------------------------------------------
C21_ChosenThroughAlias ==
    /\ NamesPlanned
    /\ raised = "none"
    /\ ~IsIn("ddr", lower(plan.main_ddr_region.name))

----------------------------------------------------------------------------
(* Devices with two address spaces: the resolvers loop over the address    *)
(* spaces of a device, the MPU resolver with one alias table for all.      *)

\* Most memory regions in each of the two address spaces.
MaxSpaceRegions == 2

\* The names of the regions; a name is used once in an address space and
\* may be used in both.
SpaceRegionNames == {"FLASH", "NVMCTRL_FLASH", "SRAM0"}

\* The extents (start_addr, size) of the regions: a region and a larger one
\* that contains it.
SpaceExtents == {<<0, 1>>, <<0, 2>>}

\* The lists of n regions of one address space.
SpaceRegionLists(n) ==
    {MemRegions(names, extents) :
        names \in {ns \in [1..n -> SpaceRegionNames] :
                      \A a, b \in 1..n : a # b => ns[a] # ns[b]},
        extents \in [1..n -> SpaceExtents]}

\* The start of the second address space.
SecondSpaceStart == 16

InitSpaces ==
    /\ pc = "input"
    /\ \E n1, n2 \in 0..MaxSpaceRegions :
          \E regions1 \in SpaceRegionLists(n1), regions2 \in SpaceRegionLists(n2) :
              address_spaces = <<[id |-> "base", start_addr |-> SpaceStart,
                                  size |-> MaxAddr, mem_regions |-> regions1],
                                 [id |-> "fuses", start_addr |-> SecondSpaceStart,
                                  size |-> MaxAddr, mem_regions |-> regions2]>>
    /\ unique_addr_spaces = <<>>
    /\ aliases = <<>>
    /\ maker = "none"
    /\ group = NoGroup
    /\ group_def = NoGroupDef
    /\ field = NoField
    /\ field_macros = NoMacros
    /\ value = 0
    /\ field_value = 0
    /\ raised = "none"
    /\ RestIdle

NextSpaces == CortexM_run \/ Mpu_run

SpecSpaces == InitSpaces /\ [][NextSpaces]_vars

----------------------------------------------------------------------------
(* Address spaces: the vocabulary of the properties. *)

\* What the resolver of the maker that ran yields for the device that has
\* address space k only.
Alone(k) ==
    IF maker = "mpu"
    THEN LET res == mpu_remove_overlapping_memory(
                        remove_known_problematic_regions(<<address_spaces[k]>>))
         IN [space |-> SortSpaces(res.spaces)[1], aliases |-> res.aliases]
    ELSE [space |-> SortSpaces(cortexm_remove_overlapping_memory(<<address_spaces[k]>>))[1],
          aliases |-> <<>>]

\* The alias entries of an alias table: (kept name, removed name).
AliasPairs(al) == UNION {{<<al[x].key, v>> : v \in al[x].vals} : x \in DOMAIN al}

----------------------------------------------------------------------------
(* C22: the surviving regions of each address space and the alias entries  *)
(* of the device are those that resolution yields for each address space   *)
(* taken alone, whatever the regions and region names of the other address *)
(* space.                                                                  *)
C22_SpacesIndependent ==
    Resolved =>
        /\ \A k \in DOMAIN address_spaces : unique_addr_spaces[k] = Alone(k).space
        /\ AliasPairs(aliases) = UNION {AliasPairs(Alone(k).aliases) : k \in DOMAIN address_spaces}

\* C22, the part that holds: the surviving regions of each address space
\* are those of the address space taken alone.
C22_SurvivorsIndependent ==
    Resolved => \A k \in DOMAIN address_spaces : unique_addr_spaces[k] = Alone(k).space

\* C22: the alias entry of the first address space is lost because the
\* second address space has a removed region of the name of its key.
C22_AliasLost ==
    /\ Resolved
    /\ maker = "mpu"
    /\ AliasPairs(Alone(1).aliases) # {}
    /\ aliases = <<>>

----------------------------------------------------------------------------
(* atdf_reader: AtdfReader._get_register_groups. A module element is the   *)
(* sequence of its register-group child elements; an element is known by   *)
(* its place in the sequence (ElementTree elements compare by identity).   *)
(* An element has a name, the redirect (its first register-group child, or *)
(* NoElement), the names of its mode children and its register children.   *)

NoElement == [name |-> "None"]

\* _find_element_with_name_attr(module_element, 'register-group', value):
\* the place of the first register-group child of that name, 0 for None.
find_element_with_name_attr(module, name_value) ==
    LET found == {x \in DOMAIN module : module[x].name = name_value}
    IN IF found = {} THEN 0 ELSE CHOOSE x \in found : \A y \in found : x <= y

\* _get_registers_from_group, lines 563-575: the call AtdfReader.get_str('name')
\* of the first register element lacks the element argument and raises
\* TypeError; without register elements the loop body does not run.
get_registers_from_group(group_element) ==
    IF Len(group_element.registers) > 0
    THEN [raised |-> "TypeError", regs |-> <<>>]
    ELSE [raised |-> "none", regs |-> <<>>]

\* The first loop, lines 507-529, from element x on; st = [register_groups,
\* done_elements, raised].
RECURSIVE indirect_loop(_, _, _)
indirect_loop(module, x, st) ==
    IF x > Len(module) \/ st.raised # "none" THEN st
    ELSE LET indirect_group == module[x]
             redirect_element == indirect_group.redirect
         IN IF redirect_element = NoElement THEN indirect_loop(module, x + 1, st)
            ELSE LET real_group == find_element_with_name_attr(module, redirect_element.name)
                 IN IF real_group = 0
                    THEN [st EXCEPT !.raised = "AttributeError"]
                    ELSE LET got == get_registers_from_group(module[real_group])
                             rg == [name |-> indirect_group.name,
                                    offset |-> redirect_element.offset,
                                    count |-> redirect_element.count,
                                    modes |-> module[real_group].modes,
                                    regs |-> got.regs]
                         IN IF got.raised # "none"
                            THEN [st EXCEPT !.raised = got.raised]
                            ELSE indirect_loop(module, x + 1,
                                    [st EXCEPT !.register_groups = Append(@, rg),
                                               !.done_elements = @ \o <<x, real_group>>])

\* list.remove(x): without the first item equal to x.
RECURSIVE list_remove(_, _)
list_remove(list, x) ==
    IF list = <<>> THEN <<>>
    ELSE IF Head(list) = x THEN Tail(list)
         ELSE <<Head(list)>> \o list_remove(Tail(list), x)

\* A slip of the removal: an element that is no longer in the list is
\* passed over.
remove_done_if_present(group_elements, done_elements) ==
    [raised |-> "none",
     group_elements |-> SelectSeq(group_elements,
                                  LAMBDA e : \A d \in DOMAIN done_elements : done_elements[d] # e)]

\* Lines 533-534: 'for done in done_elements: group_elements.remove(done)';
\* list.remove raises ValueError when the element is not in the list.
RECURSIVE remove_done(_, _)
remove_done(group_elements, done_elements) ==
    IF done_elements = <<>> THEN [raised |-> "none", group_elements |-> group_elements]
    ELSE IF \A g \in DOMAIN group_elements : group_elements[g] # Head(done_elements)
         THEN [raised |-> "ValueError", group_elements |-> group_elements]
         ELSE remove_done(list_remove(group_elements, Head(done_elements)),
                          Tail(done_elements))

\* The last loop, lines 537-548.
RECURSIVE generic_loop(_, _, _)
generic_loop(module, group_elements, st) ==
    IF group_elements = <<>> \/ st.raised # "none" THEN st
    ELSE LET grp == module[Head(group_elements)]
             got == get_registers_from_group(grp)
             rg == [name |-> grp.name, offset |-> 0, count |-> 0,
                    modes |-> grp.modes, regs |-> got.regs]
         IN IF got.raised # "none"
            THEN [st EXCEPT !.raised = got.raised]
            ELSE generic_loop(module, Tail(group_elements),
                              [st EXCEPT !.register_groups = Append(@, rg)])

\* _get_register_groups for the module element found under periph_name.
get_register_groups(module) ==
    LET first == indirect_loop(module, 1,
                     [register_groups |-> <<>>, done_elements |-> <<>>, raised |-> "none"])
        removed == remove_done([x \in DOMAIN module |-> x], first.done_elements)
    IN IF first.raised # "none" THEN first
       ELSE IF removed.raised # "none" THEN [first EXCEPT !.raised = removed.raised]
       ELSE generic_loop(module, removed.group_elements, first)

----------------------------------------------------------------------------
(* The modules the reader is given. *)

\* Most register-group elements of a module.
MaxGroups == 3

\* The names of the register-group elements, by place.
GroupNames == <<"PORT", "GROUP", "SERCOM">>

\* The redirects of an element of a module of n elements: none, one to an
\* element of the module, one to a group the module does not have.
Redirects ==
    {NoElement} \cup {[name |-> nm, offset |-> 0, count |-> 4] :
                         nm \in {"PORT", "GROUP", "SERCOM", "MISSING"}}

ModeLists == {<<>>, <<"SPI">>}

RegisterLists == {<<>>, <<"CTRLA">>}

Modules(n) ==
    {[x \in 1..n |-> [name |-> GroupNames[x], redirect |-> redirects[x],
                      modes |-> modes[x], registers |-> registers[x]]] :
        redirects \in [1..n -> Redirects], modes \in [1..n -> ModeLists],
        registers \in [1..n -> RegisterLists]}

InitRead ==
    /\ pc = "module"
    /\ \E n \in 0..MaxGroups : module_element \in Modules(n)
    /\ register_groups = <<>>
    /\ raised = "none"
    /\ address_spaces = <<>>
    /\ unique_addr_spaces = <<>>
    /\ aliases = <<>>
    /\ maker = "none"
    /\ group = NoGroup
    /\ group_def = NoGroupDef
    /\ field = NoField
    /\ field_macros = NoMacros
    /\ value = 0
    /\ field_value = 0
    /\ device_name = ""
    /\ peripherals = <<>>
    /\ plan = NoPlan
    /\ outfile = <<>>
    /\ error_msg = <<>>
    /\ fuse_decls = <<>>
    /\ LinkIdle
    /\ ObjIdle
    /\ BatchIdle
    /\ VectorIdle
    /\ DriverIdle

\* AtdfReader._get_register_groups(periph_name)
GetRegisterGroups ==
    /\ pc = "module"
    /\ \E res \in {get_register_groups(module_element)} :
          /\ register_groups' = res.register_groups
          /\ raised' = res.raised
    /\ pc' = "read"
    /\ UNCHANGED <<module_element, memVars, layoutVars, fieldVars, planVars, fuseVars,
                   linkVars, objVars, batchVars, vectorVars, driverVars>>

NextRead == GetRegisterGroups

SpecRead == InitRead /\ [][NextRead]_vars

----------------------------------------------------------------------------
(* Reading register groups: the vocabulary of the properties. *)

ReadDone == pc = "read"

\* The wrappers of the module: the elements with a redirect.
Wrappers == {x \in DOMAIN module_element : module_element[x].redirect # NoElement}

\* The element a wrapper refers to, 0 if the module has none of that name.
TargetOf(x) == find_element_with_name_attr(module_element, module_element[x].redirect.name)

TargetsExist == \A x \in Wrappers : TargetOf(x) # 0

Targets == {TargetOf(x) : x \in Wrappers}

\* The register groups returned that carry the name of element x.
GroupsNamed(x) ==
    {k \in DOMAIN register_groups : register_groups[k].name = module_element[x].name}

----------------------------------------------------------------------------
(* C23: for every module in which each wrapper's target exists, reading    *)
(* the register groups completes; each wrapper yields one RegisterGroup    *)
(* with the wrapper's name and the target's modes and registers, a target  *)
(* that is not a wrapper yields none, and every other element yields one   *)
(* RegisterGroup with its own modes and registers.                         *)
C23_EachGroupOnce ==
    (ReadDone /\ TargetsExist) =>
        /\ raised = "none"
        /\ \A x \in DOMAIN module_element :
              IF x \in Wrappers
              THEN /\ Cardinality(GroupsNamed(x)) = 1
                   /\ \A k \in GroupsNamed(x) :
                         /\ register_groups[k].modes = module_element[TargetOf(x)].modes
                         /\ Len(register_groups[k].regs)
                               = Len(module_element[TargetOf(x)].registers)
              ELSE IF x \in Targets
                   THEN GroupsNamed(x) = {}
                   ELSE /\ Cardinality(GroupsNamed(x)) = 1
                        /\ \A k \in GroupsNamed(x) :
                              /\ register_groups[k].modes = module_element[x].modes
                              /\ Len(register_groups[k].regs) = Len(module_element[x].registers)

\* C23: two wrappers refer to the same target, no element has a register,
\* and reading ends with ValueError.
C23_SharedTargetFails ==
    /\ ReadDone
    /\ TargetsExist
    /\ \E x, y \in Wrappers : x # y /\ TargetOf(x) = TargetOf(y) /\ TargetOf(x) \notin Wrappers
    /\ \A x \in DOMAIN module_element : module_element[x].registers = <<>>
    /\ raised = "ValueError"

\* C23: a module of one group with one register, and reading ends with
\* TypeError.
C23_RegisterFails ==
    /\ ReadDone
    /\ Len(module_element) = 1
    /\ Wrappers = {}
    /\ raised = "TypeError"

\* C23, what holds: when reading completes, no element other than a
\* wrapper has a register, no target is shared or is a wrapper, and each
\* element is processed at most once.
C23_CompletesOnlyWithoutRegisters ==
    (ReadDone /\ TargetsExist /\ raised = "none") =>
        /\ \A x \in (DOMAIN module_element) \ Wrappers : module_element[x].registers = <<>>
        /\ \A x, y \in Wrappers : x # y => TargetOf(x) # TargetOf(y)
        /\ Wrappers \cap Targets = {}
        /\ \A x \in DOMAIN module_element : Cardinality(GroupsNamed(x)) <= 1

----------------------------------------------------------------------------
(* Resolution applied again: the vocabulary of the properties. *)

\* _remove_overlapping_memory of the maker that ran, applied to spaces.
ResolveAgain(spaces) ==
    IF maker = "mpu" THEN mpu_remove_overlapping_memory(spaces).spaces
    ELSE cortexm_remove_overlapping_memory(spaces)

\* What _remove_overlapping_memory returned in the run, before run() sorted
\* it: the surviving regions in the order of the input.
ResolverOutput ==
    [k \in DOMAIN address_spaces |->
        WithRegions(address_spaces[k],
                    SelectSeq(address_spaces[k].mem_regions,
                              LAMBDA r : r \in Survivors(k)))]

----------------------------------------------------------------------------
(* C24: _remove_overlapping_memory applied to its own output, in the order *)
(* it was returned or in the order run() sorts it, returns the same        *)
(* regions: no further region is removed.                                  *)
C24_ResolutionIdempotent ==
    Resolved =>
        /\ ResolveAgain(ResolverOutput) = ResolverOutput
        /\ ResolveAgain(unique_addr_spaces) = unique_addr_spaces

\* C24: a run that removed a region and left two.
C24_Witness ==
    /\ Resolved
    /\ Len(address_spaces[1].mem_regions) = 3
    /\ Cardinality(Survivors(1)) = 2
    /\ ResolveAgain(ResolverOutput) = ResolverOutput

----------------------------------------------------------------------------
(* Resolution of a reordered map: the memory maps, whose regions take      *)
(* their extents from a set with duplicates, contained regions, partial    *)
(* overlaps and disjoint regions, and the runs of the two makers.          *)

\* The extents of the regions.
OrderExtents == {<<0, 1>>, <<0, 2>>, <<1, 1>>, <<1, 2>>, <<0, 3>>}

InitOrder ==
    /\ pc = "input"
    /\ \E n \in 0..MaxRegions :
          \E names \in RegionNameLists(n), extents \in [1..n -> OrderExtents] :
              address_spaces = <<[id |-> "base", start_addr |-> SpaceStart,
                                  size |-> MaxAddr,
                                  mem_regions |-> MemRegions(names, extents)]>>
    /\ unique_addr_spaces = <<>>
    /\ aliases = <<>>
    /\ maker = "none"
    /\ group = NoGroup
    /\ group_def = NoGroupDef
    /\ field = NoField
    /\ field_macros = NoMacros
    /\ value = 0
    /\ field_value = 0
    /\ raised = "none"
    /\ RestIdle

NextOrder == CortexM_run \/ Mpu_run

SpecOrder == InitOrder /\ [][NextOrder]_vars

----------------------------------------------------------------------------
(* Resolution of a reordered map: the vocabulary of the properties. *)

\* The resolution run() of the maker that ran makes of the address spaces.
ResolveDevice(spaces) ==
    IF maker = "mpu"
    THEN mpu_remove_overlapping_memory(remove_known_problematic_regions(spaces)).spaces
    ELSE cortexm_remove_overlapping_memory(spaces)

\* The address spaces of the device with the regions of address space k in
\* the order f.
Reordered(k, f) ==
    [address_spaces EXCEPT ![k] =
        WithRegions(@, [x \in DOMAIN @.mem_regions |-> @.mem_regions[f[x]]])]

\* The extents [start, end) of a list of regions.
ExtentsOf(regions) == {<<r.start_addr, EndOf(r)>> : r \in SetOf(regions)}

----------------------------------------------------------------------------
(* C25: for regions with pairwise distinct names, whatever the order of    *)
(* the regions of an address space in the input, resolution leaves the     *)
(* same set of extents and one region for each; only the name that stands  *)
(* for a group of exact duplicates can differ.                             *)
C25_ExtentsOrderIndependent ==
    Resolved =>
        \A k \in DOMAIN address_spaces :
            \A f \in Permutations(DOMAIN address_spaces[k].mem_regions) :
                \A other \in {ResolveDevice(Reordered(k, f))[k].mem_regions} :
                    LET mine == unique_addr_spaces[k].mem_regions
                    IN /\ ExtentsOf(other) = ExtentsOf(mine)
                       /\ Len(other) = Len(mine)
                       /\ \A r \in SetOf(other) :
                             \/ r \in SetOf(mine)
                             \/ \E d \in SetOf(ResolverInput(k)) :
                                    d.name # r.name /\ SameExtent(d, r)

\* C25: a map of three regions, two of them exact duplicates and one
\* contained, of which another order leaves the other name of the duplicates.
C25_Witness ==
    /\ Resolved
    /\ Len(ResolverInput(1)) = 3
    /\ Cardinality(ExtentsOf(ResolverInput(1))) = 2
    /\ Cardinality(Survivors(1)) = 1
    /\ \E f \in Permutations(DOMAIN address_spaces[1].mem_regions) :
          SetOf(ResolveDevice(Reordered(1, f))[1].mem_regions) # Survivors(1)

----------------------------------------------------------------------------
(* The alias table: the vocabulary of the properties. *)

\* The names of the regions of the resolved map, of any address space.
SurvivingNames ==
    UNION {{r.name : r \in Survivors(k)} : k \in DOMAIN unique_addr_spaces}

\* The names of the regions the resolver removed from an address space.
RemovedNames ==
    UNION {{r.name : r \in SetOf(ResolverInput(k)) \ Survivors(k)} :
              k \in DOMAIN address_spaces}

\* The alias names of the table.
AliasNames == UNION {aliases[x].vals : x \in DOMAIN aliases}

----------------------------------------------------------------------------
(* C26: in the alias table the MPU resolver returns, every key is the name *)
(* of a region of the resolved map, every alias name is the name of a      *)
(* region that was removed, and no name is both a key and an alias.        *)
C26_AliasTableWellFormed ==
    (Resolved /\ maker = "mpu") =>
        /\ AliasKeys(aliases) \subseteq SurvivingNames
        /\ AliasNames \subseteq RemovedNames
        /\ AliasKeys(aliases) \cap AliasNames = {}

\* C26: the table of a device with two address spaces in which a name is
\* the key of one entry and an alias of another.
C26_KeyIsAlsoAlias ==
    /\ Resolved
    /\ maker = "mpu"
    /\ Len(aliases) = 2
    /\ aliases[1].key \in aliases[2].vals \/ aliases[2].key \in aliases[1].vals

----------------------------------------------------------------------------
(* cortexm_c_vectors_maker and arm_mcu_c_startup_maker: the handler        *)
(* declarations and the vector table. An entry of the table is the initial *)
(* stack pointer, Reserved_Handler or the handler of an interrupt.         *)

\* _get_handler_declarations: a weak declaration for every interrupt but
\* HardFault and Reset, in order.
get_handler_declarations(interrupts_) ==
    LET kept == SelectSeq(interrupts_, LAMBDA intr : intr.name \notin {"HardFault", "Reset"})
    IN [k \in DOMAIN kept |-> kept[k].name]

\* The loop 'while current_index < intr.index' of _get_vector_table.
RECURSIVE fill_gaps(_, _)
fill_gaps(st, index) ==
    IF st.current_index < index
    THEN fill_gaps([intr_decls |-> Append(st.intr_decls, [entry |-> "Reserved_Handler"]),
                    current_index |-> st.current_index + 1], index)
    ELSE st

\* The loop 'for intr in interrupts' of _get_vector_table.
RECURSIVE vector_entries(_, _)
vector_entries(interrupts_, st) ==
    IF interrupts_ = <<>> THEN st
    ELSE LET intr == Head(interrupts_)
             filled == fill_gaps(st, intr.index)
         IN vector_entries(Tail(interrupts_),
                [intr_decls |-> Append(filled.intr_decls,
                                       [entry |-> "Handler", name |-> intr.name,
                                        index |-> intr.index]),
                 current_index |-> filled.current_index + 1])

\* A slip of the count: the entry of the initial stack pointer is left out.
vector_table_num_entries_without_sp(current_index, first_index) ==
    current_index - first_index

\* num_entries = current_index - interrupts[0].index + 1
vector_table_num_entries(current_index, first_index) ==
    current_index - first_index + 1

\* _get_vector_table(interrupts); table_type is the type the maker gives
\* the entries. interrupts[0] of an empty list raises IndexError.
get_vector_table(interrupts_, table_type) ==
    IF interrupts_ = <<>>
    THEN [raised |-> "IndexError", table_type |-> table_type, num_entries |-> 0,
          intr_decls |-> <<[entry |-> "__INITIAL_SP"]>>]
    ELSE LET st == vector_entries(interrupts_,
                       [intr_decls |-> <<[entry |-> "__INITIAL_SP"]>>,
                        current_index |-> interrupts_[1].index])
         IN [raised |-> "none", table_type |-> table_type,
             num_entries |-> vector_table_num_entries(st.current_index, interrupts_[1].index),
             intr_decls |-> st.intr_decls]

\* run(proc_header_name, interrupts, outfile) of a maker: the handler
\* declarations and the vector table it writes.
vectors_run(maker_name, interrupts_, table_type) ==
    LET table == get_vector_table(interrupts_, table_type)
    IN [maker |-> maker_name, raised |-> table.raised,
        handler_declarations |-> get_handler_declarations(interrupts_),
        vector_table |-> table]

----------------------------------------------------------------------------
(* The interrupt lists of the devices. *)

\* Most interrupts of a device.
MaxInterrupts == 3

\* The indexes of the interrupts: exceptions have negative indexes.
InterruptIndexes == -2..2

\* The names of the interrupts, by place in the list.
InterruptNames == <<"Reset", "HardFault", "SysTick", "WDT">>

\* DeviceInterrupt(name, index, module_instance, caption)
DeviceInterrupt(x, index) ==
    [name |-> InterruptNames[x], index |-> index, module_instance |-> "", caption |-> ""]

InitVectors ==
    /\ pc = "interrupts"
    /\ \E n \in 0..MaxInterrupts :
          \E indexes \in [1..n -> InterruptIndexes] :
              interrupts = [x \in 1..n |-> DeviceInterrupt(x, indexes[x])]
    /\ vector_file = NoVectorFile
    /\ raised = "none"
    /\ address_spaces = <<>>
    /\ unique_addr_spaces = <<>>
    /\ aliases = <<>>
    /\ maker = "none"
    /\ group = NoGroup
    /\ group_def = NoGroupDef
    /\ field = NoField
    /\ field_macros = NoMacros
    /\ value = 0
    /\ field_value = 0
    /\ device_name = ""
    /\ peripherals = <<>>
    /\ plan = NoPlan
    /\ outfile = <<>>
    /\ error_msg = <<>>
    /\ fuse_decls = <<>>
    /\ LinkIdle
    /\ ObjIdle
    /\ BatchIdle
    /\ ReadIdle
    /\ DriverIdle

\* cortexm_c_vectors_maker.run(proc_header_name, interrupts, outfile)
CortexM_vectors ==
    /\ pc = "interrupts"
    /\ \E res \in {vectors_run("cortexm_c_vectors_maker", interrupts, "void(*)(void)")} :
          /\ vector_file' = res
          /\ raised' = res.raised
    /\ pc' = "vectors"
    /\ UNCHANGED <<interrupts, memVars, layoutVars, fieldVars, planVars, fuseVars,
                   linkVars, objVars, batchVars, readVars, driverVars>>

\* arm_mcu_c_startup_maker.run(proc_header_name, interrupts, outfile)
ArmMcu_startup ==
    /\ pc = "interrupts"
    /\ \E res \in {vectors_run("arm_mcu_c_startup_maker", interrupts, "VECTOR_TABLE_Type")} :
          /\ vector_file' = res
          /\ raised' = res.raised
    /\ pc' = "vectors"
    /\ UNCHANGED <<interrupts, memVars, layoutVars, fieldVars, planVars, fuseVars,
                   linkVars, objVars, batchVars, readVars, driverVars>>

NextVectors == CortexM_vectors \/ ArmMcu_startup

SpecVectors == InitVectors /\ [][NextVectors]_vars

----------------------------------------------------------------------------
(* The vector table: the vocabulary of the properties. *)

VectorsMade == pc = "vectors"

\* The indexes of the list are strictly ascending.
StrictlyAscending ==
    \A x, y \in DOMAIN interrupts : x < y => interrupts[x].index < interrupts[y].index

FirstIndex == interrupts[1].index
LastIndex == interrupts[Len(interrupts)].index

\* The entry of the table at a slot; the initial stack pointer is at slot 0.
Slot(n) == vector_file.vector_table.intr_decls[n + 1]

----------------------------------------------------------------------------
(* C27: for a non-empty interrupt list with strictly ascending indexes the *)
(* table starts with the initial stack pointer, the handler of each        *)
(* interrupt is at slot index - first index + 1, every index of the range  *)
(* that no interrupt has is filled with Reserved_Handler, and the declared *)
(* length is the number of entries, last index - first index + 2.          *)
C27_VectorTableSlots ==
    (VectorsMade /\ interrupts # <<>> /\ StrictlyAscending) =>
        /\ raised = "none"
        /\ Slot(0) = [entry |-> "__INITIAL_SP"]
        /\ \A x \in DOMAIN interrupts :
              Slot(interrupts[x].index - FirstIndex + 1)
                  = [entry |-> "Handler", name |-> interrupts[x].name,
                     index |-> interrupts[x].index]
        /\ \A index \in FirstIndex..LastIndex :
              (\A x \in DOMAIN interrupts : interrupts[x].index # index)
                  => Slot(index - FirstIndex + 1) = [entry |-> "Reserved_Handler"]
        /\ Len(vector_file.vector_table.intr_decls) = LastIndex - FirstIndex + 2
        /\ vector_file.vector_table.num_entries = Len(vector_file.vector_table.intr_decls)

\* C27: a table of three interrupts with a gap of two indexes.
C27_Witness ==
    /\ VectorsMade
    /\ Len(interrupts) = 3
    /\ StrictlyAscending
    /\ LastIndex - FirstIndex = 4
    /\ vector_file.vector_table.num_entries = 6
    /\ Cardinality({n \in 0..5 : Slot(n) = [entry |-> "Reserved_Handler"]}) = 2

----------------------------------------------------------------------------
(* all_devices_header_maker.run: the header that includes the header of    *)
(* the device the compiler is run for. device_families is a dict, modelled *)
(* as the sequence of its [family, names] items in insertion order. A line *)
(* of the header is its directive, its nesting in the chain (0 for the     *)
(* family tests, 1 for the device tests of a family) and its argument.     *)

\* Lines 70-79: the tests and the includes of the devices of a family.
RECURSIVE family_devices(_, _)
family_devices(devices, first_dev) ==
    IF devices = <<>> THEN <<>>
    ELSE <<[dir |-> IF first_dev THEN "#if" ELSE "#elif", level |-> 1,
            arg |-> upper(Head(devices))],
           [dir |-> "#include", level |-> 1, arg |-> lower(Head(devices))]>>
         \o family_devices(Tail(devices), FALSE)

\* Lines 58-83: the loop over the families other than '_'.
RECURSIVE families_loop(_, _)
families_loop(items, first_family) ==
    IF items = <<>> THEN <<>>
    ELSE IF "_" = Head(items).family THEN families_loop(Tail(items), first_family)
    ELSE <<[dir |-> IF first_family THEN "#if" ELSE "#elif", level |-> 0,
            arg |-> Head(items).family]>>
         \o family_devices(Head(items).names, TRUE)
         \o <<[dir |-> "#else", level |-> 1, arg |-> ""],
              [dir |-> "#error", level |-> 1, arg |-> Head(items).family],
              [dir |-> "#endif", level |-> 1, arg |-> ""]>>
         \o families_loop(Tail(items), FALSE)

\* Lines 87-89: the devices of the family '_'.
RECURSIVE catch_all_devices(_)
catch_all_devices(devices) ==
    IF devices = <<>> THEN <<>>
    ELSE <<[dir |-> "#elif", level |-> 0, arg |-> upper(Head(devices))],
           [dir |-> "#include", level |-> 0, arg |-> lower(Head(devices))]>>
         \o catch_all_devices(Tail(devices))

\* The chain of the families other than '_', from 'first_family = True' on.
family_chain(items) == families_loop(items, TRUE)

\* run(hdr, basename, device_families); device_families['_'] raises KeyError
\* when the dict has no such key.
all_devices_header_run(basename, items) ==
    LET head == <<[dir |-> "license", level |-> -1, arg |-> ""],
                  [dir |-> "#ifndef", level |-> -1, arg |-> upper(basename)],
                  [dir |-> "#define", level |-> -1, arg |-> upper(basename)]>>
        chain == family_chain(items)
        catch == {x \in DOMAIN items : items[x].family = "_"}
    IN IF catch = {}
       THEN [raised |-> "KeyError", hdr |-> head \o chain]
       ELSE [raised |-> "none",
             hdr |-> head \o chain
                     \o catch_all_devices(items[CHOOSE x \in catch : TRUE].names)
                     \o <<[dir |-> "#else", level |-> 0, arg |-> ""],
                          [dir |-> "#error", level |-> 0, arg |-> ""],
                          [dir |-> "#endif", level |-> 0, arg |-> ""],
                          [dir |-> "#endif", level |-> -1, arg |-> upper(basename)]>>]

----------------------------------------------------------------------------
(* The dictionaries of device families. *)

\* Most families of a dictionary.
MaxFamilies == 3

\* The families; '_' is the family of the devices of no known family.
FamilyNames == {"SAME54", "SAMD21", "PIC32CZ", "_"}

\* The devices of a family, in the order the batch has them.
FamilyDevices(family) ==
    CASE family = "SAME54" -> <<"ATSAME54P20A", "ATSAME54N19A">>
      [] family = "SAMD21" -> <<"ATSAMD21G18A", "ATSAMD21E15A">>
      [] family = "PIC32CZ" -> <<"PIC32CZ8110CA80208", "PIC32CZ2051CA80064">>
      [] OTHER -> <<"CEC1736", "MEC1723">>

\* The dictionaries of n families, each with one or two devices.
FamilyDicts(n) ==
    {[x \in 1..n |-> [family |-> fams[x], names |-> SubSeq(FamilyDevices(fams[x]), 1, sizes[x])]] :
        fams \in {fs \in [1..n -> FamilyNames] : \A a, b \in 1..n : a # b => fs[a] # fs[b]},
        sizes \in [1..n -> 1..2]}

InitHeader ==
    /\ pc = "families"
    /\ \E n \in 0..MaxFamilies : device_families \in FamilyDicts(n)
    /\ batch = <<>>
    /\ device_index = 0
    /\ files = {}
    /\ ld_path = Unbound
    /\ big_header = <<>>
    /\ raised = "none"
    /\ address_spaces = <<>>
    /\ unique_addr_spaces = <<>>
    /\ aliases = <<>>
    /\ maker = "none"
    /\ group = NoGroup
    /\ group_def = NoGroupDef
    /\ field = NoField
    /\ field_macros = NoMacros
    /\ value = 0
    /\ field_value = 0
    /\ device_name = ""
    /\ peripherals = <<>>
    /\ plan = NoPlan
    /\ outfile = <<>>
    /\ error_msg = <<>>
    /\ fuse_decls = <<>>
    /\ LinkIdle
    /\ ObjIdle
    /\ ReadIdle
    /\ VectorIdle

\* all_devices_header_maker.run(hdr, 'which_pic32', device_families)
AllDevicesHeader_run ==
    /\ pc = "families"
    /\ \E res \in {all_devices_header_run("which_pic32", device_families)} :
          /\ big_header' = res.hdr
          /\ raised' = res.raised
    /\ pc' = "header"
    /\ UNCHANGED <<ld_path, memVars, layoutVars, fieldVars, planVars, fuseVars, linkVars,
                   objVars, batchVars, readVars, vectorVars>>

NextHeader == AllDevicesHeader_run

SpecHeader == InitHeader /\ [][NextHeader]_vars

----------------------------------------------------------------------------
(* The header of all devices: the vocabulary of the properties. *)

HeaderMade == pc = "header"

\* The places of the lines of the header that test a family or a device of
\* the family '_' (the chain), and of the '#else' lines of the chain.
ChainTests ==
    {x \in DOMAIN big_header : big_header[x].level = 0 /\ big_header[x].dir \in {"#if", "#elif"}}

ChainElses ==
    {x \in DOMAIN big_header : big_header[x].level = 0 /\ big_header[x].dir = "#else"}

\* Whether the conditional directives of the lines are nested as the C
\* preprocessor requires; open holds, for every conditional that is open,
\* whether its '#else' has been seen.
RECURSIVE Nested(_, _)
Nested(lines, open) ==
    IF lines = <<>> THEN open = <<>>
    ELSE LET dir == Head(lines).dir
             top == Len(open)
         IN CASE dir \in {"#if", "#ifndef"} -> Nested(Tail(lines), Append(open, FALSE))
              [] dir = "#elif" -> top > 0 /\ ~open[top] /\ Nested(Tail(lines), open)
              [] dir = "#else" -> /\ top > 0
                                  /\ ~open[top]
                                  /\ Nested(Tail(lines), [open EXCEPT ![top] = TRUE])
              [] dir = "#endif" -> top > 0 /\ Nested(Tail(lines), SubSeq(open, 1, top - 1))
              [] OTHER -> Nested(Tail(lines), open)

\* The lines of the header between the lines of the include guard.
InsideGuard == SubSeq(big_header, 4, Len(big_header) - 1)

----------------------------------------------------------------------------
(* C29: for every non-empty dictionary of device families, the maker       *)
(* completes and the header is a well-formed conditional chain: its first  *)
(* test is '#if' and every later one '#elif', every conditional is closed  *)
(* by its '#endif', and the chain ends with its only '#else', the error    *)
(* and '#endif'.                                                           *)
C29_ChainWellFormed ==
    (HeaderMade /\ device_families # <<>>) =>
        /\ raised = "none"
        /\ ChainTests # {}
        /\ \A x \in ChainTests :
              big_header[x].dir = IF x = Least(ChainTests) THEN "#if" ELSE "#elif"
        /\ Nested(InsideGuard, <<>>)
        /\ Cardinality(ChainElses) = 1
        /\ \A x \in ChainElses :
              /\ x = Len(big_header) - 3
              /\ big_header[x + 1].dir = "#error"
              /\ big_header[x + 2].dir = "#endif"

\* C29: a dictionary without the family '_', and the maker ends with
\* KeyError.
C29_NoCatchAllFails ==
    /\ HeaderMade
    /\ device_families # <<>>
    /\ \A x \in DOMAIN device_families : device_families[x].family # "_"
    /\ raised = "KeyError"

\* C29: the family '_' is the only family, and the first test of the header
\* the maker returns is '#elif'.
C29_OnlyCatchAllStartsWithElif ==
    /\ HeaderMade
    /\ Len(device_families) = 1
    /\ device_families[1].family = "_"
    /\ raised = "none"
    /\ big_header[4].dir = "#elif"

\* C29, what holds: with the family '_' and another family in the
\* dictionary the maker completes and the chain is well formed.
C29_WellFormedWithBoth ==
    (HeaderMade /\ Len(device_families) >= 2
                /\ \E x \in DOMAIN device_families : device_families[x].family = "_") =>
        /\ raised = "none"
        /\ \A x \in ChainTests :
              big_header[x].dir = IF x = Least(ChainTests) THEN "#if" ELSE "#elif"
        /\ Nested(InsideGuard, <<>>)
        /\ Cardinality(ChainElses) = 1

----------------------------------------------------------------------------
(* The batch driver: __main__ of pic32-device-file-maker.py makes the      *)
(* files of every device in a loop and then the files shared by the        *)
(* devices. A path is the sequence of its parts below the output           *)
(* directory. The text of a configuration file is the default linker       *)
(* script its maker is given; the text of the header of all devices is     *)
(* what all_devices_header_maker.run wrote; the text of another file is    *)
(* abstracted to whether its maker wrote it.                               *)

\* The kinds of device: its CPU and its family.
DriverKinds ==
    {[cpu |-> "cortex-m4", family |-> "SAME54"],
     [cpu |-> "cortex-a5", family |-> "SAMA5"],
     [cpu |-> "arm926ej-s", family |-> "SAM9"],
     [cpu |-> "cortex-m4", family |-> "CEC"],
     [cpu |-> "cortex-m7", family |-> "PIC32CZ"],
     [cpu |-> "mips32r5", family |-> "PIC32MZ"]}

\* The DeviceInfo of the device at position x of the batch.
DriverDevice(x, kind) ==
    [name |-> BatchNames[x], cpu |-> kind.cpu, family |-> kind.family,
     peripherals |-> <<>>, interrupts |-> <<DeviceInterrupt(1, -2)>>]

\* devinfo.cpu.startswith('cortex') or devinfo.cpu.startswith('arm')
IsArm(cpu) == cpu \in {"cortex-m4", "cortex-m7", "cortex-a5", "arm926ej-s"}

\* devinfo.name[:7].upper()
name_prefix(name) ==
    CASE name = "ATSAME54P20A" -> "ATSAME5"
      [] name = "PIC32CZ8110CA80208" -> "PIC32CZ"
      [] name = "ATSAMD21G18A" -> "ATSAMD2"

\* Lines 293-297: the key of the device in device_families.
family_key(devinfo) ==
    LET family == upper(devinfo.family)
    IN IF family \in {"PIC32CZ", "PIC32MZ"} THEN name_prefix(devinfo.name)
       ELSE IF family \notin {"SAME54", "SAMA5", "SAM9"} THEN "_"
       ELSE family

\* os.path.relpath(path, start) for two paths below the output directory.
RECURSIVE relpath(_, _)
relpath(path, start) ==
    IF path # <<>> /\ start # <<>> /\ Head(path) = Head(start)
    THEN relpath(Tail(path), Tail(start))
    ELSE [x \in 1..Len(start) |-> ".."] \o path

\* The text of the configuration file of a device: the default linker
\* script arm_config_file_maker.run is given.
ConfigText(default_ld_path) == <<[chunk |-> "default_ld_path", path |-> default_ld_path]>>

InitDriver ==
    /\ pc = "driver"
    /\ \E n \in 0..MaxBatch :
          \E kinds \in [1..n -> DriverKinds] :
              batch = [x \in 1..n |-> DriverDevice(x, kinds[x])]
    /\ device_index = 1
    /\ files = {}
    /\ device_families = <<>>
    /\ ld_path = Unbound
    /\ big_header = <<>>
    /\ raised = "none"
    /\ address_spaces = <<>>
    /\ unique_addr_spaces = <<>>
    /\ aliases = <<>>
    /\ maker = "none"
    /\ group = NoGroup
    /\ group_def = NoGroupDef
    /\ field = NoField
    /\ field_macros = NoMacros
    /\ value = 0
    /\ field_value = 0
    /\ device_name = ""
    /\ peripherals = <<>>
    /\ plan = NoPlan
    /\ outfile = <<>>
    /\ error_msg = <<>>
    /\ fuse_decls = <<>>
    /\ LinkIdle
    /\ ObjIdle
    /\ ReadIdle
    /\ VectorIdle

\* One pass of the loop 'for devinfo in devinfo_list', lines 225-303.
\* ld_path is assigned for a Cortex-M device only; reading a name that is
\* not bound raises NameError. A file is created when it is opened, before
\* its maker runs.
Pic32_device ==
    /\ pc = "driver"
    /\ device_index <= Len(batch)
    /\ LET devinfo == batch[device_index]
           dir == lower(devinfo.name)
           is_mcu == IsCortexM(devinfo.cpu)
           next_ld_path == IF is_mcu THEN <<"arm", "proc", dir, "default.ld">> ELSE ld_path
           made == {[path |-> <<"arm", "include", "proc", dir, ".h">>, text |-> Written]}
                   \cup (IF is_mcu
                         THEN {[path |-> <<"arm", "proc", dir, "default.ld">>, text |-> Written],
                               [path |-> <<"arm", "proc", dir, "startup.c">>, text |-> Written]}
                         ELSE {})
       IN IF ~IsArm(devinfo.cpu)
          THEN /\ device_index' = device_index + 1
               /\ UNCHANGED <<pc, files, device_families, raised, ld_path>>
          ELSE IF next_ld_path = Unbound
               THEN /\ files' = files \cup made
                                  \cup {[path |-> <<"config", dir, ".cfg">>, text |-> <<>>]}
                    /\ raised' = "NameError"
                    /\ pc' = "exited"
                    /\ UNCHANGED <<device_index, device_families, ld_path>>
               ELSE /\ files' = files \cup made
                                  \cup {[path |-> <<"config", dir, ".cfg">>,
                                         text |-> ConfigText(relpath(next_ld_path,
                                                                     <<"config">>))]}
                    /\ ld_path' = next_ld_path
                    /\ device_families' = AddToFamily(device_families, family_key(devinfo),
                                                      devinfo.name)
                    /\ device_index' = device_index + 1
                    /\ UNCHANGED <<pc, raised>>
    /\ UNCHANGED <<batch, big_header, memVars, planVars, fuseVars, linkVars, objVars,
                   layoutVars, fieldVars, readVars, vectorVars>>

\* After the loop, lines 307-328: the header of all the devices and the
\* premade files, then exit(0).
Pic32_finish ==
    /\ pc = "driver"
    /\ device_index > Len(batch)
    /\ \E res \in {all_devices_header_run("which_pic32", device_families)} :
          /\ big_header' = res.hdr
          /\ raised' = res.raised
          /\ IF res.raised # "none"
             THEN /\ files' = files \cup {[path |-> <<"arm", "include", "which_pic32", ".h">>,
                                           text |-> res.hdr]}
                  /\ pc' = "exited"
             ELSE /\ files' = files \cup {[path |-> <<"arm", "include", "which_pic32", ".h">>,
                                           text |-> res.hdr],
                                          [path |-> <<"premade">>, text |-> Written]}
                  /\ pc' = "done"
    /\ UNCHANGED <<batch, device_index, device_families, ld_path, memVars, planVars, fuseVars,
                   linkVars, objVars, layoutVars, fieldVars, readVars, vectorVars>>

NextDriver == Pic32_device \/ Pic32_finish

SpecDriver == InitDriver /\ [][NextDriver]_vars

----------------------------------------------------------------------------
(* The batch driver: the vocabulary of the properties. *)

\* The devices the loop has processed: those it has passed and has not
\* skipped.
DriverProcessed == {x \in DOMAIN batch : x < device_index /\ IsArm(batch[x].cpu)}

\* The configuration file of the device at position x.
ConfigOf(x) == {f \in files : f.path = <<"config", lower(batch[x].name), ".cfg">>}

\* The default linker script of the device at position x, as the path from
\* the directory of the configuration files.
OwnScript(x) == <<"..", "arm", "proc", lower(batch[x].name), "default.ld">>

----------------------------------------------------------------------------
(* C28: the configuration file of every processed device references the    *)
(* default linker script generated for that device, whatever the order and *)
(* the CPU kinds of the devices of the batch.                              *)
C28_ConfigReferencesOwnScript ==
    pc \in {"driver", "done", "exited"} =>
        \A x \in DriverProcessed :
            /\ ConfigOf(x) # {}
            /\ \A f \in ConfigOf(x) : f.text = ConfigText(OwnScript(x))
            /\ \E f \in files : f.path = <<"arm", "proc", lower(batch[x].name), "default.ld">>

\* C28: a Cortex-A device that follows a Cortex-M device has a
\* configuration file that references the linker script of the Cortex-M
\* device.
C28_StaleScript ==
    /\ pc = "driver"
    /\ device_index = 3
    /\ batch[1].cpu = "cortex-m4"
    /\ batch[2].cpu = "cortex-a5"
    /\ \E f \in ConfigOf(2) : f.text = ConfigText(OwnScript(1))

\* C28: a batch whose first device is a Cortex-A device ends with NameError
\* at that device.
C28_UnboundFails ==
    /\ pc = "exited"
    /\ raised = "NameError"
    /\ device_index = 1
    /\ batch[1].cpu = "cortex-a5"
    /\ \E f \in ConfigOf(1) : f.text = <<>>

----------------------------------------------------------------------------
(* The names of the fuse regions and of the fuse output sections: the      *)
(* devices, whose fuses instance has one or two references to register     *)
(* groups, and the run of the linker script maker.                         *)

\* The offsets of the registers do not take part in the names.
FuseNameOffsets == {0}

\* The register groups of at most n registers, all at one offset.
FuseNameMemberLists(n) ==
    UNION {{[x \in 1..k |-> [name |-> FuseMemberNames[x], offset |-> offs[x],
                             size |-> shapes[x][1], count |-> shapes[x][2]]] :
               offs \in [1..k -> FuseNameOffsets], shapes \in [1..k -> FuseShapes]} :
           k \in 0..n}

\* The references of the instance: one or two of FuseGroupRefs.
FuseRefLists == UNION {[1..k -> FuseGroupRefs] : k \in 1..2}

InitFuseNames ==
    /\ pc = "input"
    /\ device_name = "ATSAME54P20A"
    /\ address_spaces = FuseAddressSpaces(TRUE)
    /\ \E periph_name \in {"FUSES", "APB"} :
       \E refs \in FuseRefLists :
       \E members \in FuseNameMemberLists(MaxFuseMembers) :
          peripherals = <<[name |-> periph_name,
                           instances |-> <<[name |-> "FUSES", reg_group_refs |-> refs]>>,
                           reg_groups |-> <<[name |-> "FUSES", members |-> members]>>]>>
    /\ plan = NoPlan
    /\ outfile = <<>>
    /\ error_msg = <<>>
    /\ fuse_decls = <<>>
    /\ LinkIdle
    /\ ObjectsInput
    /\ BatchIdle
    /\ ExtIdle
    /\ unique_addr_spaces = <<>>
    /\ aliases = <<>>
    /\ maker = "none"
    /\ group = NoGroup
    /\ group_def = NoGroupDef
    /\ field = NoField
    /\ field_macros = NoMacros
    /\ value = 0
    /\ field_value = 0
    /\ raised = "none"

NextFuseNames == CortexM_plan

SpecFuseNames == InitFuseNames /\ [][NextFuseNames]_vars

----------------------------------------------------------------------------
(* The names of the fuse regions and sections: the vocabulary. *)

\* The names of the regions the lines of a MEMORY command define.
DefinedNames(lines) == [x \in DOMAIN lines |-> lines[x].name]

\* The script has the part of the fuses.
HasFuseSections == \E x \in DOMAIN outfile : outfile[x].chunk = "fuse_SECTIONS"

\* The regions the fuse output sections of the script go to.
FuseSectionTargets == ChunkLines(outfile, "fuse_SECTIONS")

----------------------------------------------------------------------------
(* C30: for one fuses peripheral, the sequence of the region names the     *)
(* fuse output sections go to is the sequence of the region names the      *)
(* fuse MEMORY regions define: whenever _get_fuse_MEMORY returns, its      *)
(* names are those of _get_fuse_SECTIONS, and a script that has fuse       *)
(* sections has the same names, in the same order, in both commands.       *)
C30_FuseSectionsMatchRegions ==
    /\ \A x \in DOMAIN peripherals :
          \A spaces \in {address_spaces, unique_addr_spaces} :
              \E res \in {get_fuse_MEMORY(spaces, peripherals[x])} :
                  res.raised = "none" =>
                      DefinedNames(res.lines) = get_fuse_SECTIONS(spaces, peripherals[x])
    /\ HasFuseSections => DefinedNames(FuseLines) = FuseSectionTargets

\* C30: a script with the sections of an array of fuse registers and of a
\* single register, made from two references to the register group.
C30_Witness ==
    /\ pc = "planned"
    /\ raised = "none"
    /\ HasFuseSections
    /\ Len(peripherals[1].instances[1].reg_group_refs) = 2
    /\ \E x, y \in DOMAIN FuseSectionTargets :
          /\ FuseSectionTargets[x][3] = 1
          /\ FuseSectionTargets[y][3] = -1
    /\ Len(FuseSectionTargets) > 3
    /\ DefinedNames(FuseLines) = FuseSectionTargets

====
